---------------------------- MODULE Spec2Model ----------------------------
(***************************************************************************)
(* A model of the D-Log data-repair and infilling pipeline of dlit_lu      *)
(* (data_repair.py, analyse.py, infilling.py and user_fixes.py under       *)
(* src/src/dlit_lu).                                                       *)
(*                                                                         *)
(* The module holds several specifications over one set of variables, one  *)
(* per part of the pipeline:                                               *)
(*   SpecLuc    find_and_replace_luc on one cell and one lookup table      *)
(*   SpecLand   infill_landuse_codes on the three tables                   *)
(*   SpecIds    fix_site_ref_id on the three tables                        *)
(*   SpecYears  infill_missing_years on the three tables                   *)
(*   SpecArea   the MEAN site-area and unit infill of infill_data          *)
(*   SpecBuild  infill_year_units on one row                               *)
(*   SpecRun    infilling.run, over the columns its year and build-out     *)
(*              passes read                                                *)
(*   SpecMissing   analyse.find_missing_values on one table                *)
(*   SpecBuckets   analyse.analyse_invalid_luc on the rows with invalid    *)
(*                 existing land-use codes                                 *)
(*   SpecClassify  the filter columns of analyse.data_report and           *)
(*                 classify_data, on the residential table                 *)
(*   SpecTag    data_repair.infill_missing_tag on annotated tables         *)
(*   SpecUser   user_fixes.infill_user_inputs with uneditable columns      *)
(*   SpecConfig the validators of inputs.DLitConfig                        *)
(*   SpecFind   analyse.find_missing_ids on two series of ids              *)
(*   SpecFixes  the user-fix loop of analyse_and_infill.run, with the      *)
(*              prompts of user_fixes.implement_user_fixes                 *)
(*   SpecOrder  the repair passes of correct_inavlid_syntax and            *)
(*              infill_data, for each GFA infill method                    *)
(***************************************************************************)
EXTENDS Integers, Sequences, FiniteSets, TLC

\* find_and_replace_luc on one cell
\*   luc_pc                position in the resolver scenario
\*   luc_entry             the list object passed to find_and_replace_luc
\*   lookup_table          the lookup table (rows of find code, replacement)
\*   luc_first             what the first call returned
\*   luc_second            what a second call, on the first result, returned
VARIABLES luc_pc, luc_entry, lookup_table, luc_first, luc_second

\* infill_landuse_codes
\*   land_pc               position in infill_landuse_codes
\*   land_in               the tables infill_landuse_codes was given, as they were
\*   land_data             the tables as the passes hand them on
VARIABLES land_pc, land_in, land_data

\* fix_site_ref_id
\*   ids_pc                position in fix_site_ref_id
\*   ids_in                the tables fix_site_ref_id was given
\*   fixed_ids             the tables it returns, one key per category reached
\*   overall_max_id_value  the running largest id
\*   ids_key               the category the second loop has reached
VARIABLES ids_pc, ids_in, fixed_ids, overall_max_id_value, ids_key

\* infill_missing_years
\*   yr_pc                 position in infill_missing_years
\*   yr_in                 the tables infill_missing_years was given
\*   yr_data               the tables as the steps hand them on
\*   average_years         what calc_average_years_webtag_certainty returned
VARIABLES yr_pc, yr_in, yr_data, average_years

\* the MEAN site-area and unit infill
\*   area_pc               position in the MEAN infill
\*   area_in               the tables as they enter the infill
\*   area_data             the tables as the steps hand them on
\*   infill_averages       what _average_factors returned
VARIABLES area_pc, area_in, area_data, infill_averages

\* infill_year_units on one row
\*   build_pc              position in infill_year_units
\*   build_row             the row: distribution id, year ids and total units
\*   build_years           the build-out columns of the row, by queried year
\*   build_col             the build-out column the loop has reached
VARIABLES build_pc, build_row, build_years, build_col

\* infilling.run
\*   run_pc                the call run has reached
\*   run_data              the tables run holds, with the columns the year and build-out passes read
\*   user_infill           config.infill.user_infill
\*   run_error             the exception that ended the run, if one did
VARIABLES run_pc, run_data, user_infill, run_error

\* find_missing_values on one table
\*   mv_pc                 position in the find_missing_values scenario
\*   record                the table find_missing_values is given
\*   not_allowed           the list of not-allowed values
\*   missing_single        what the call over each single column returned, by column
\*   missing_both          what the call over both columns returned
VARIABLES mv_pc, record, not_allowed, missing_single, missing_both

\* analyse_invalid_luc on the three tables
\*   bk_pc                 position in the invalid-code analysis
\*   luc_data              the tables the invalid-code analysis is run on
\*   invalid_luc           per category, the rows find_invalid_land_use_codes returned
\*   luc_analysis          per category, the rows of each bucket of analyse_invalid_luc
VARIABLES bk_pc, luc_data, invalid_luc, luc_analysis

\* data_report's filter columns and classify_data
\*   cl_pc                 position in data_report
\*   res_data              the residential table data_report is given
\*   data_filter           the filter columns data_report adds, by row
\*   classified_data       the buckets classify_data returns, as sets of row labels
VARIABLES cl_pc, res_data, data_filter, classified_data

\* infill_missing_tag on the three tables
\*   tag_pc                position in the WebTAG infill
\*   tag_in                the tables as data_report annotated them
\*   tag_data              the tables infill_missing_tag returned
VARIABLES tag_pc, tag_in, tag_data

\* infill_user_inputs with uneditable columns
\*   user_pc               position in the infill_user_inputs scenario
\*   user_data             the tables infill_user_inputs is given
\*   data_subset           the sheets of the user-edited file, as parse_sheet reads them
\*   infilled_data         the tables infill_user_inputs returned
VARIABLES user_pc, user_data, data_subset, infilled_data

\* find_missing_ids on two series of ids
\*   fm_pc                 position in the find_missing_ids scenario
\*   ids_l                 the series of ids
\*   ids_s                 the series taken to be a subset of ids_l
\*   missing_ids           the series find_missing_ids returned
VARIABLES fm_pc, ids_l, ids_s, missing_ids

\* the repair passes of a run, in the order they execute
\*   ord_pc                the pass about to execute
\*   gfa_method            config.infill.gfa_infill_method
\*   ord_data              the area and unit columns of the tables, as the passes hand them on
\*   ord_averages          what _average_factors returned
\*   passes                the passes executed so far, in order, each with the table it worked on
\*   ord_dtype             the table _regression_area_infill is working on
\*   ord_step              the step of _regression_area_infill's loop body
VARIABLES ord_pc, gfa_method, ord_data, ord_averages, passes, ord_dtype, ord_step

\* the user-fix loop of analyse_and_infill.run
\*   fix_pc                where the loop stands: the prompt it waits at, or how it was left
\*   syntax_fixed_data     the syntax-fixed tables the loop is entered with
\*   data_to_fix           the tables the round hands to implement_user_fixes
\*   user_fixed_data       what implement_user_fixes returned, as reported
\*   user_input_file       the file at config.user_input_path
\*   prompts               the operator's answers and the file accesses so far, with their round
\*   audits                the change audits written
\*   fix_round             the number of the round
VARIABLES fix_pc, syntax_fixed_data, data_to_fix, user_fixed_data, user_input_file, prompts, audits, fix_round

\* the validation of a DLitConfig
\*   cfg_pc                the validator about to run, or the outcome
\*   config_values         the configuration as given
\*   cfg_errors            the errors the validators have raised so far
VARIABLES cfg_pc, config_values, cfg_errors

lucVars == <<luc_pc, luc_entry, lookup_table, luc_first, luc_second>>
landVars == <<land_pc, land_in, land_data>>
idsVars == <<ids_pc, ids_in, fixed_ids, overall_max_id_value, ids_key>>
yrVars == <<yr_pc, yr_in, yr_data, average_years>>
areaVars == <<area_pc, area_in, area_data, infill_averages>>
buildVars == <<build_pc, build_row, build_years, build_col>>
runVars == <<run_pc, run_data, user_infill, run_error>>
mvVars == <<mv_pc, record, not_allowed, missing_single, missing_both>>
bkVars == <<bk_pc, luc_data, invalid_luc, luc_analysis>>
clVars == <<cl_pc, res_data, data_filter, classified_data>>
tagVars == <<tag_pc, tag_in, tag_data>>
userVars == <<user_pc, user_data, data_subset, infilled_data>>
fmVars == <<fm_pc, ids_l, ids_s, missing_ids>>
ordVars == <<ord_pc, gfa_method, ord_data, ord_averages, passes, ord_dtype, ord_step>>
fixVars == <<fix_pc, syntax_fixed_data, data_to_fix, user_fixed_data, user_input_file, prompts, audits, fix_round>>
cfgVars == <<cfg_pc, config_values, cfg_errors>>

vars == <<lucVars, landVars, idsVars, yrVars, areaVars, buildVars, runVars, mvVars, bkVars, clVars, tagVars, userVars, fmVars, ordVars, fixVars, cfgVars>>

\* the variables each part of the pipeline leaves alone
restOfLuc == <<landVars, idsVars, yrVars, areaVars, buildVars, runVars, mvVars, bkVars, clVars, tagVars, userVars, fmVars, ordVars, fixVars, cfgVars>>
restOfLand == <<lucVars, idsVars, yrVars, areaVars, buildVars, runVars, mvVars, bkVars, clVars, tagVars, userVars, fmVars, ordVars, fixVars, cfgVars>>
restOfIds == <<lucVars, landVars, yrVars, areaVars, buildVars, runVars, mvVars, bkVars, clVars, tagVars, userVars, fmVars, ordVars, fixVars, cfgVars>>
restOfYr == <<lucVars, landVars, idsVars, areaVars, buildVars, runVars, mvVars, bkVars, clVars, tagVars, userVars, fmVars, ordVars, fixVars, cfgVars>>
restOfArea == <<lucVars, landVars, idsVars, yrVars, buildVars, runVars, mvVars, bkVars, clVars, tagVars, userVars, fmVars, ordVars, fixVars, cfgVars>>
restOfBuild == <<lucVars, landVars, idsVars, yrVars, areaVars, runVars, mvVars, bkVars, clVars, tagVars, userVars, fmVars, ordVars, fixVars, cfgVars>>
restOfRun == <<lucVars, landVars, idsVars, yrVars, areaVars, buildVars, mvVars, bkVars, clVars, tagVars, userVars, fmVars, ordVars, fixVars, cfgVars>>
restOfMv == <<lucVars, landVars, idsVars, yrVars, areaVars, buildVars, runVars, bkVars, clVars, tagVars, userVars, fmVars, ordVars, fixVars, cfgVars>>
restOfBk == <<lucVars, landVars, idsVars, yrVars, areaVars, buildVars, runVars, mvVars, clVars, tagVars, userVars, fmVars, ordVars, fixVars, cfgVars>>
restOfCl == <<lucVars, landVars, idsVars, yrVars, areaVars, buildVars, runVars, mvVars, bkVars, tagVars, userVars, fmVars, ordVars, fixVars, cfgVars>>
restOfTag == <<lucVars, landVars, idsVars, yrVars, areaVars, buildVars, runVars, mvVars, bkVars, clVars, userVars, fmVars, ordVars, fixVars, cfgVars>>
restOfUser == <<lucVars, landVars, idsVars, yrVars, areaVars, buildVars, runVars, mvVars, bkVars, clVars, tagVars, fmVars, ordVars, fixVars, cfgVars>>
restOfFm == <<lucVars, landVars, idsVars, yrVars, areaVars, buildVars, runVars, mvVars, bkVars, clVars, tagVars, userVars, ordVars, fixVars, cfgVars>>
restOfOrd == <<lucVars, landVars, idsVars, yrVars, areaVars, buildVars, runVars, mvVars, bkVars, clVars, tagVars, userVars, fmVars, fixVars, cfgVars>>
restOfFix == <<lucVars, landVars, idsVars, yrVars, areaVars, buildVars, runVars, mvVars, bkVars, clVars, tagVars, userVars, fmVars, ordVars, cfgVars>>
restOfCfg == <<lucVars, landVars, idsVars, yrVars, areaVars, buildVars, runVars, mvVars, bkVars, clVars, tagVars, userVars, fmVars, ordVars, fixVars>>

(***************************************************************************)
(* Bounds of the model.                                                    *)
(***************************************************************************)
MaxLen == 2        \* longest land-use-code list in a cell
MaxRows == 2       \* most rows in a lookup table
MaxSites == 2      \* most rows in one table of site records
MaxYearRows == 2   \* most rows, over all tables, of development records with years
MaxAreaRows == 2   \* most rows in a residential or employment table with areas and units
MaxPeriods == 3    \* the five-year bands of the years lookup, one build-out column each
MaxRunRows == 2    \* most rows of the table a run is given
MaxRecord == 2     \* most rows of the table find_missing_values is given
MaxInvalid == 2    \* most rows of a table the invalid-code analysis is given
MaxReportRows == 2 \* most rows of the table whose filter columns are classified
MaxTagRows == 2    \* most rows of the table whose WebTAG certainty is infilled
MaxUserRows == 1   \* most rows of a table the user edits
MaxIds == 2        \* longest series of ids find_missing_ids is given
MaxOrderRows == 2  \* most rows of the table the passes of a run are followed on
MaxRounds == 2     \* most rounds of the user-fix loop that are followed

\* the tokens the cells and the lookup tables of the resolver scenario use
Codes == {"a", "b", "c"}

(***************************************************************************)
(* Values.  A cell of a land-use column is a python list of code strings,  *)
(* or a value without a length (a null, a number).                         *)
(***************************************************************************)
ListCell(codes) == [kind |-> "list", codes |-> codes]
NullCell == [kind |-> "null", codes |-> <<>>]
NumCell == [kind |-> "num", codes |-> <<>>]

\* a replacement value of a lookup table: a str, a list of str, or anything else
StrRepl(code) == [kind |-> "str", codes |-> <<code>>]
ListRepl(codes) == [kind |-> "list", codes |-> codes]
OtherRepl == [kind |-> "other", codes |-> <<>>]

\* fill_empty_value: None, a str, a list or anything else
NoFill == [kind |-> "none", codes |-> <<>>]

SeqsUpTo(S, n) == UNION {[1..k -> S] : k \in 0..n}

Range(s) == {s[i] : i \in 1..Len(s)}

(***************************************************************************)
(* list.count and list.remove                                              *)
(***************************************************************************)
Count(s, code) == Cardinality({i \in 1..Len(s) : s[i] = code})

RemoveFirst(s, code) ==
    LET i == CHOOSE k \in 1..Len(s) : s[k] = code /\ \A j \in 1..(k - 1) : s[j] # code
    IN  SubSeq(s, 1, i - 1) \o SubSeq(s, i + 1, Len(s))

(***************************************************************************)
(* The inner loop of find_and_replace_luc, `for _ in range(count)`.        *)
(* st.cur is the list the local name luc_entry is bound to, st.obj the     *)
(* list object the caller passed, st.aliased whether they are still the    *)
(* same object: remove and append mutate the object in place,              *)
(* `luc_entry = luc_entry + replacement_code` binds the name to a new list.*)
(***************************************************************************)
ReplaceOnceOnly(st, find_code, replacement_code, n) ==
    LET removed == RemoveFirst(st.cur, find_code)
    IN  [cur |-> removed \o replacement_code.codes, obj |-> st.obj, aliased |-> FALSE]

RECURSIVE ReplaceOccurrences(_, _, _, _)
ReplaceOccurrences(st, find_code, replacement_code, n) ==
    IF n = 0 THEN st
    ELSE LET removed == RemoveFirst(st.cur, find_code)
             obj1 == IF st.aliased THEN removed ELSE st.obj
             next ==
                 CASE replacement_code.kind = "str" ->
                        LET appended == Append(removed, replacement_code.codes[1])
                        IN  [cur |-> appended,
                             obj |-> IF st.aliased THEN appended ELSE st.obj,
                             aliased |-> st.aliased]
                   [] replacement_code.kind = "list" ->
                        [cur |-> removed \o replacement_code.codes,
                         obj |-> obj1, aliased |-> FALSE]
                   [] OTHER ->
                        [cur |-> removed, obj |-> obj1, aliased |-> st.aliased]
         IN  ReplaceOccurrences(next, find_code, replacement_code, n - 1)

\* lookup_table[find_column_name]
FindColumnOf(table) == {table[i].find : i \in 1..Len(table)}

\* lookup_table.loc[lookup_table[find] == find_code, replace].values[0]
FirstReplacement(table, find_code) ==
    LET i == CHOOSE k \in 1..Len(table) :
                 table[k].find = find_code /\ \A j \in 1..(k - 1) : table[j].find # find_code
    IN  table[i].replace

(***************************************************************************)
(* The outer loop, `for find_code in lookup_table[find_column_name]`.      *)
(***************************************************************************)
RECURSIVE ReplaceRows(_, _, _)
ReplaceRows(st, table, i) ==
    IF i > Len(table) THEN st
    ELSE LET find_code == table[i].find
         IN  IF find_code \notin Range(st.cur)
             THEN ReplaceRows(st, table, i + 1)
             ELSE ReplaceRows(
                      ReplaceOccurrences(st, find_code,
                                         FirstReplacement(table, find_code),
                                         Count(st.cur, find_code)),
                      table, i + 1)

\* a resolver that hands a value without a length back as it came
NoLengthUnchanged(entry) == [ret |-> entry, arg |-> entry, same |-> TRUE]

\* `except TypeError: return []`
NoLengthResult(entry) == [ret |-> ListCell(<<>>), arg |-> entry, same |-> FALSE]

(***************************************************************************)
(* find_and_replace_luc(luc_entry, lookup_table, find, replace,            *)
(* fill_empty_value): ret is the returned value, arg the state of the      *)
(* caller's object after the call, same whether the returned list is the   *)
(* caller's object itself.                                                 *)
(***************************************************************************)
find_and_replace_luc(entry, table, fill_empty_value) ==
    IF entry.kind # "list"
    THEN NoLengthResult(entry)
    ELSE IF Len(entry.codes) = 0 /\ fill_empty_value.kind \in {"none", "str", "list"}
    THEN [ret |-> ListCell(fill_empty_value.codes), arg |-> entry, same |-> FALSE]
    ELSE LET st == ReplaceRows([cur |-> entry.codes, obj |-> entry.codes,
                                aliased |-> TRUE], table, 1)
         IN  [ret |-> ListCell(st.cur), arg |-> ListCell(st.obj), same |-> st.aliased]

(***************************************************************************)
(* The tables.  data_dict() holds one table per category; a table is a     *)
(* sequence of rows.                                                       *)
(***************************************************************************)
Categories == {"residential", "employment", "mixed"}

_LAND_USE_COLUMNS ==
    [key \in Categories |->
        IF key = "residential" THEN {"existing_land_use"}
        ELSE {"existing_land_use", "proposed_land_use"}]

LandColumns == {"existing_land_use", "proposed_land_use"}

EmptyTables == [key \in Categories |-> <<>>]

(***************************************************************************)
(* Auxiliary data: the valid codes and the three lookups read by           *)
(* parser.read_auxiliary_data.  parse_landuse_codes makes every            *)
(* replacement a list.                                                     *)
(***************************************************************************)
allowed_codes == <<"e(g)", "c3">>

known_invalid_luc == <<[find |-> "ki", replace |-> ListRepl(<<"c3">>)]>>

incomplete_luc == <<[find |-> "e", replace |-> ListRepl(<<"e(g)", "c3">>)]>>

out_of_date_luc == <<[find |-> "b1", replace |-> ListRepl(<<"e(g)">>)]>>

\* the codes the cells of the tables are drawn from: a valid code, its
\* bracket-stripped form, a known-invalid, an out-of-date and an incomplete code,
\* and one code no lookup knows
LandCodes == {"e(g)", "eg", "ki", "b1", "e", "zz"}

\* s.replace("(", "").replace(")", "")
StripBrackets(code) == IF code = "e(g)" THEN "eg" ELSE code

HasBracket(code) == StripBrackets(code) # code

(***************************************************************************)
(* analyse.find_invalid_land_use_codes and analyse.analyse_invalid_luc on  *)
(* one cell: record[column].str.join(",").str.split(",") turns an empty    *)
(* list into the single token "".                                          *)
(***************************************************************************)
Exploded(cell) == IF Len(cell.codes) = 0 THEN <<"">> ELSE cell.codes

find_invalid_land_use_codes(cell, land_use_codes) ==
    \E i \in 1..Len(Exploded(cell)) : Exploded(cell)[i] \notin Range(land_use_codes)

wrong_format_check ==
    {StripBrackets(allowed_codes[i]) : i \in {k \in 1..Len(allowed_codes) : HasBracket(allowed_codes[k])}}

incomplete_luc_ ==
    FindColumnOf(incomplete_luc)
        \cup {StripBrackets(c) : c \in {d \in FindColumnOf(incomplete_luc) : HasBracket(d)}}

InBucket(cell, bucket) ==
    /\ find_invalid_land_use_codes(cell, allowed_codes)
    /\ \E i \in 1..Len(Exploded(cell)) : Exploded(cell)[i] \in bucket

out_of_date(cell) == InBucket(cell, FindColumnOf(out_of_date_luc))
incomplete(cell) == InBucket(cell, incomplete_luc_)
formatting(cell) == InBucket(cell, wrong_format_check)

\* other_issues_output[key] = value.drop(index=temp.index)
other_issues(cell) ==
    /\ find_invalid_land_use_codes(cell, allowed_codes)
    /\ ~out_of_date(cell) /\ ~incomplete(cell) /\ ~formatting(cell)

(***************************************************************************)
(* A land-use cell of a row as the passes see it: cur is the list in the   *)
(* table now handed on, obj the list object of the table that was passed   *)
(* to infill_landuse_codes, same whether cur still is that object          *)
(* (DataFrame.copy copies the column of references, not the lists).        *)
(***************************************************************************)
FreshCell(cell) == [cur |-> cell, obj |-> cell, same |-> TRUE]

\* one .apply(find_and_replace_luc, ...) over the cell the table holds now
Applied(cs, table, fill_empty_value) ==
    LET r == find_and_replace_luc(cs.cur, table, fill_empty_value)
    IN  [cur |-> r.ret,
         obj |-> IF cs.same THEN r.arg ELSE cs.obj,
         same |-> cs.same /\ r.same]

\* the three passes chained, each on the column the previous one returned
ChainedLookups(cs) ==
    Applied(Applied(Applied(cs, known_invalid_luc, NoFill), incomplete_luc, NoFill),
            out_of_date_luc, NoFill)

(***************************************************************************)
(* old_incomplete_known_luc on one cell.  The known-invalid pass and the   *)
(* incomplete pass both read value[column]; the result of the first is     *)
(* overwritten by the second, and only what the first pass did to the list *)
(* objects in place is seen by the second.                                 *)
(***************************************************************************)
OldIncompleteKnownCell(cs) ==
    LET known == find_and_replace_luc(cs.cur, known_invalid_luc, NoFill)
        incompl == find_and_replace_luc(known.arg, incomplete_luc, NoFill)
        outdated == find_and_replace_luc(incompl.ret, out_of_date_luc, NoFill)
        value_after == IF incompl.same THEN outdated.arg ELSE incompl.arg
    IN  [cur |-> outdated.ret,
         obj |-> IF cs.same THEN value_after ELSE cs.obj,
         same |-> cs.same /\ incompl.same /\ outdated.same]

\* fix_missing_lucs(data, columns, ["unknown", "mixed"], valid codes)
missing_values_lookup(fill_value) ==
    <<[find |-> "unknown", replace |-> ListRepl(fill_value)],
      [find |-> "mixed", replace |-> ListRepl(fill_value)]>>

\* fix_undefined_invalid_luc: only rows whose other_issues filter column is set
\* are looked at
NotFixed(row, column, fill_value) ==
    /\ row.other_issues[column]
    /\ row.lu[column].cur # ListCell(fill_value)
    /\ find_invalid_land_use_codes(row.lu[column].cur, allowed_codes)

\* what one pass leaves in one land-use cell of one row
CellPass(row, column, pass, fill_value) ==
    CASE pass = "lookups" -> OldIncompleteKnownCell(row.lu[column])
      [] pass = "missing" ->
            Applied(row.lu[column], missing_values_lookup(fill_value), ListRepl(fill_value))
      [] OTHER ->
            IF NotFixed(row, column, fill_value)
            THEN [cur |-> ListCell(fill_value), obj |-> row.lu[column].obj, same |-> FALSE]
            ELSE row.lu[column]

\* a pass over every land-use column of every table
OverColumns(data, pass, fill_value) ==
    [key \in Categories |->
        [i \in 1..Len(data[key]) |->
            [data[key][i] EXCEPT !.lu =
                [column \in LandColumns |->
                    IF column \in _LAND_USE_COLUMNS[key]
                    THEN CellPass(data[key][i], column, pass, fill_value)
                    ELSE data[key][i].lu[column]]]]]

old_incomplete_known_luc(data) == OverColumns(data, "lookups", <<>>)

fix_missing_lucs(data, fill_value) == OverColumns(data, "missing", fill_value)

fix_undefined_invalid_luc(data, fill_value) == OverColumns(data, "undefined", fill_value)

(***************************************************************************)
(* fix_site_ref_id.  A site_reference_id is a number or NaN; data_report   *)
(* sets missing_site_ref on the rows whose id is NaN.                      *)
(***************************************************************************)
NaN == [nan |-> TRUE, val |-> 0]
Num(v) == [nan |-> FALSE, val |-> v]

\* data_dict(): the order the categories are iterated in
CategoryOrder == <<"residential", "employment", "mixed">>

SiteIds == {-2, 3}

SiteRow(id) == [site_reference_id |-> id, missing_site_ref |-> id.nan]

SiteRows == {SiteRow(Num(v)) : v \in SiteIds} \cup {SiteRow(NaN)}

SiteTables == [Categories -> SeqsUpTo(SiteRows, MaxSites)]

NoSites == [key \in Categories |-> <<>>]

\* value.loc[value["missing_site_ref"] == False, "site_reference_id"].max()
MaxValidId(value) ==
    LET valid == {value[i].site_reference_id.val :
                    i \in {j \in 1..Len(value) :
                            ~value[j].missing_site_ref /\ ~value[j].site_reference_id.nan}}
    IN  IF valid = {} THEN NaN
        ELSE Num(CHOOSE m \in valid : \A v \in valid : v <= m)

\* the first loop: the largest valid id of all tables, 0 if there is none above 0
RECURSIVE FindMaxId(_, _, _)
FindMaxId(data, overall, k) ==
    IF k > Len(CategoryOrder) THEN overall
    ELSE LET max_id_value == MaxValidId(data[CategoryOrder[k]])
         IN  FindMaxId(data,
                       IF ~max_id_value.nan /\ max_id_value.val > overall
                       THEN max_id_value.val ELSE overall,
                       k + 1)

\* value[value["missing_site_ref"] == True]
MissingIds(value) == {i \in 1..Len(value) : value[i].missing_site_ref}

\* the position of row i among the rows of missing_ids
RankIn(rows, i) == Cardinality({j \in rows : j <= i})

\* overall_max_id_value + np.arange(1, len(missing_ids) + 1)
NewIds(overall, n) == [j \in 1..n |-> overall + j]

\* the running largest id is kept where it was
MaxNotCarried(overall, new_ids) == overall

\* overall_max_id_value = new_ids.max()
MaxCarried(overall, new_ids) == new_ids[Len(new_ids)]

InfilledSites(value, new_ids) ==
    [i \in 1..Len(value) |->
        IF i \in MissingIds(value)
        THEN [value[i] EXCEPT !.site_reference_id = Num(new_ids[RankIn(MissingIds(value), i)])]
        ELSE value[i]]

(***************************************************************************)
(* Start and end years.  A year id is a number or NaN; 14 is the index of  *)
(* the "unknown" entry of the years lookup.                                *)
(***************************************************************************)
UnknownYear == 14

\* the year ids the rows use besides NaN and the unknown index
YearIds == {4, 10}

YearCells == {Num(y) : y \in YearIds} \cup {NaN, Num(UnknownYear)}

\* webtag_lookup.index; 0 is "not specified"
webtag_lookup == <<0, 1>>

\* find_missing_values on one cell with not_allowed = [14, ...]
IsMissingYear(cell) == cell.nan \/ cell.val = UnknownYear

\* a row as data_report leaves it: missing_years is set if either year is
\* missing
YearRow(tag, start, end) ==
    [web_tag_certainty_id |-> tag, start_year_id |-> start, end_year_id |-> end,
     missing_years |-> IsMissingYear(start) \/ IsMissingYear(end)]

YearRows == {YearRow(tag, s, e) : tag \in Range(webtag_lookup), s \in YearCells, e \in YearCells}

\* up to MaxYearRows rows, the first in residential and the rest in employment
YearTables ==
    {[key \in Categories |->
        IF key = "residential" THEN SubSeq(rows, 1, k)
        ELSE IF key = "employment" THEN SubSeq(rows, k + 1, Len(rows))
        ELSE <<>>] :
        <<rows, k>> \in {rk \in SeqsUpTo(YearRows, MaxYearRows) \X (0..MaxYearRows) :
                            rk[2] <= Len(rk[1])}}

YearCellsOf(data) == UNION {{<<key, i>> : i \in 1..Len(data[key])} : key \in Categories}

\* the rows calc_average_years_webtag_certainty pools for one certainty id
CompleteRows(data, id_) ==
    {c \in YearCellsOf(data) :
        /\ ~data[c[1]][c[2]].missing_years
        /\ data[c[1]][c[2]].web_tag_certainty_id = id_}

\* Series.mode().values[0]: the smallest of the most frequent values
ModeOf(data, rows, column) ==
    LET value(c) == data[c[1]][c[2]][column].val
        times(v) == Cardinality({c \in rows : value(c) = v})
        values == {value(c) : c \in rows}
        modes == {v \in values : \A w \in values : times(w) <= times(v)}
    IN  CHOOSE v \in modes : \A w \in modes : v <= w

NonZeroIds == {webtag_lookup[i] : i \in {j \in 1..Len(webtag_lookup) : webtag_lookup[j] # 0}}

\* .values[0] of an empty mode raises IndexError
AverageYearsRaises(data) == \E id_ \in NonZeroIds : CompleteRows(data, id_) = {}

\* the modal pair as it is before the end year is compared with the start year
AverageYearsNotClamped(data, id_) ==
    <<ModeOf(data, CompleteRows(data, id_), "start_year_id"),
      ModeOf(data, CompleteRows(data, id_), "end_year_id")>>

AverageYearsOf(data, id_) ==
    LET mode_start_year == ModeOf(data, CompleteRows(data, id_), "start_year_id")
        mode_end_year == ModeOf(data, CompleteRows(data, id_), "end_year_id")
    IN  IF mode_start_year > mode_end_year
        THEN <<mode_start_year, mode_start_year>>
        ELSE <<mode_start_year, mode_end_year>>

calc_average_years_webtag_certainty(data) ==
    [id_ \in NonZeroIds |-> AverageYearsOf(data, id_)]

NoAverageYears == [id_ \in NonZeroIds |-> <<0, 0>>]

\* the values infill_one_missing_year works out from the period for a row
\* that has only its end year (start) or only its start year (end)
PeriodStart(end_year_id, period) ==
    IF end_year_id <= period THEN end_year_id ELSE end_year_id - period

PeriodEnd(start_year_id, period) ==
    IF start_year_id + period >= UnknownYear THEN start_year_id ELSE start_year_id + period

\* what it writes into the table: to_be_fixed.loc[end_no_start, "start_year_id"]
\* = end_no_start_values["end_year_id"], and the same for the end year
WrittenStart(row, period) == row.end_year_id

WrittenEnd(row, period) == row.start_year_id

OneMissingRow(row, average) ==
    IF row.web_tag_certainty_id \notin DOMAIN average THEN row
    ELSE LET period == average[row.web_tag_certainty_id][2] - average[row.web_tag_certainty_id][1]
             no_start == IsMissingYear(row.start_year_id)
             no_end == IsMissingYear(row.end_year_id)
         IN  IF no_start /\ ~no_end
             THEN [row EXCEPT !.start_year_id = WrittenStart(row, period)]
             ELSE IF no_end /\ ~no_start
             THEN [row EXCEPT !.end_year_id = WrittenEnd(row, period)]
             ELSE row

infill_one_missing_year(data, average) ==
    [key \in Categories |->
        [i \in 1..Len(data[key]) |-> OneMissingRow(data[key][i], average)]]

\* the last loop of infill_missing_years: rows with a year still missing and a
\* certainty id other than 0 get the modal pair of their id
BothMissingRow(row, average) ==
    IF /\ IsMissingYear(row.start_year_id) \/ IsMissingYear(row.end_year_id)
       /\ row.web_tag_certainty_id # 0
       /\ row.web_tag_certainty_id \in DOMAIN average
    THEN [row EXCEPT !.start_year_id = Num(average[row.web_tag_certainty_id][1]),
                     !.end_year_id = Num(average[row.web_tag_certainty_id][2])]
    ELSE row

(***************************************************************************)
(* Site areas and units.  infill_data has made every area and unit cell a  *)
(* float: a number, kept here as a fraction in lowest terms, or NaN.       *)
(***************************************************************************)
NaNRat == [nan |-> TRUE, num |-> 0, den |-> 1]

RECURSIVE Gcd(_, _)
Gcd(a, b) == IF b = 0 THEN a ELSE Gcd(b, a % b)

Rat(n, d) ==
    IF n = 0 THEN [nan |-> FALSE, num |-> 0, den |-> 1]
    ELSE [nan |-> FALSE, num |-> n \div Gcd(n, d), den |-> d \div Gcd(n, d)]

RatAdd(x, y) == Rat(x.num * y.den + y.num * x.den, x.den * y.den)

\* float multiplication: NaN if either factor is
RatMul(x, y) == IF x.nan \/ y.nan THEN NaNRat ELSE Rat(x.num * y.num, x.den * y.den)

\* .mean(): the sum over the count, NaN for no values
RatMean(total, count) == IF count = 0 THEN NaNRat ELSE Rat(total.num, total.den * count)

_UNITS_COLUMNS ==
    [key \in Categories |->
        IF key = "residential" THEN {"units_(dwellings)", "total_units"}
        ELSE IF key = "employment" THEN {"total_area_sqm", "units_(floorspace)"}
        ELSE {"floorspace_sqm", "units_(floorspace)", "dwellings", "units_(dwellings)"}]

AreaCells == {NaNRat, Rat(0, 1), Rat(2, 1)}

UnitCells == {NaNRat, Rat(0, 1), Rat(4, 1)}

AreaRows(key) == [area : AreaCells, units : [_UNITS_COLUMNS[key] -> UnitCells]]

\* a residential table, an employment table, or one mixed row next to at most
\* one residential row
AreaTables ==
    UNION {{[NoSites EXCEPT ![key] = rows] : rows \in SeqsUpTo(AreaRows(key), MaxAreaRows)} :
            key \in {"residential", "employment"}}
    \cup {[NoSites EXCEPT !["mixed"] = <<m>>, !["residential"] = r] :
        m \in AreaRows("mixed"), r \in SeqsUpTo(AreaRows("residential"), 1)}

\* find_missing_values with not_allowed = [0, "-"]
IsMissingValue(cell) == cell.nan \/ cell.num = 0

PresentAreas(value) == {i \in 1..Len(value) : ~value[i].area.nan}

RECURSIVE SumAreas(_, _)
SumAreas(value, rows) ==
    IF rows = {} THEN Rat(0, 1)
    ELSE LET i == CHOOSE j \in rows : TRUE
         IN  RatAdd(value[i].area, SumAreas(value, rows \ {i}))

\* df.loc[~df[column].isna(), column].mean()
calculate_average(data) ==
    [key \in Categories |->
        RatMean(SumAreas(data[key], PresentAreas(data[key])),
                Cardinality(PresentAreas(data[key])))]

\* the rows whose ratio is finite: unit and area present, area not 0
FiniteRatios(value, units_col) ==
    {i \in 1..Len(value) :
        ~value[i].units[units_col].nan /\ ~value[i].area.nan /\ value[i].area.num # 0}

RECURSIVE SumRatios(_, _, _)
SumRatios(value, units_col, rows) ==
    IF rows = {} THEN Rat(0, 1)
    ELSE LET i == CHOOSE j \in rows : TRUE
             unit == value[i].units[units_col]
         IN  RatAdd(Rat(unit.num * value[i].area.den, unit.den * value[i].area.num),
                    SumRatios(value, units_col, rows \ {i}))

\* the mean ratio over the rows of two tables
unit_area_ratio(data, key1, col1, key2, col2) ==
    RatMean(RatAdd(SumRatios(data[key1], col1, FiniteRatios(data[key1], col1)),
                   SumRatios(data[key2], col2, FiniteRatios(data[key2], col2))),
            Cardinality(FiniteRatios(data[key1], col1))
                + Cardinality(FiniteRatios(data[key2], col2)))

_average_factors(data) ==
    [average_area |-> calculate_average(data),
     average_gfa_site_area_ratio |->
        unit_area_ratio(data, "employment", "total_area_sqm", "mixed", "floorspace_sqm"),
     average_dwelling_site_area_ratio |->
        unit_area_ratio(data, "residential", "total_units", "mixed", "dwellings")]

NoAverages ==
    [average_area |-> [key \in Categories |-> NaNRat],
     average_gfa_site_area_ratio |-> NaNRat,
     average_dwelling_site_area_ratio |-> NaNRat]

infill_missing_site_area(data, infill_area) ==
    [key \in Categories |->
        [i \in 1..Len(data[key]) |->
            IF IsMissingValue(data[key][i].area)
            THEN [data[key][i] EXCEPT !.area = infill_area[key]]
            ELSE data[key][i]]]

\* the rows infill_units leaves out although a unit is missing
NoAreaForUnits(row) == IsMissingValue(row.area)

\* a row with any of the unit columns missing and its area present gets
\* area * ratio in every one of the unit columns
UnitsInfilledRow(row, unit_columns, ratio) ==
    IF (\E u \in unit_columns : IsMissingValue(row.units[u])) /\ ~NoAreaForUnits(row)
    THEN [row EXCEPT !.units =
            [u \in DOMAIN row.units |->
                IF u \in unit_columns THEN RatMul(row.area, ratio) ELSE row.units[u]]]
    ELSE row

infill_units(data, keys, unit_columns, unit_to_area_ratio) ==
    [key \in Categories |->
        IF key \in keys
        THEN [i \in 1..Len(data[key]) |->
                UnitsInfilledRow(data[key][i], unit_columns[key], unit_to_area_ratio[key])]
        ELSE data[key]]

(***************************************************************************)
(* Build-out profiles.  The distributions raise 2 to multiples of 1/5, so  *)
(* a number is kept exactly as a fraction of two vectors over the powers   *)
(* 1, t, t^2, t^3, t^4 of t = 2 ** (1/5); a zero denominator is the float  *)
(* inf (or NaN when the numerator is zero too).                            *)
(***************************************************************************)
period == 5

Vec(i, v) == [k \in 0..4 |-> IF k = i THEN v ELSE 0]

ZeroVec == [k \in 0..4 |-> 0]

VecAdd(a, b) == [k \in 0..4 |-> a[k] + b[k]]

VecSub(a, b) == [k \in 0..4 |-> a[k] - b[k]]

VecScale(a, n) == [k \in 0..4 |-> a[k] * n]

\* the product of the powers t^i and t^j is t^(i+j), and t^5 = 2
VecMulTerm(a, b, k, i) == a[i] * b[(k - i) % 5] * (IF i > k THEN 2 ELSE 1)

VecMul(a, b) ==
    [k \in 0..4 |->
        VecMulTerm(a, b, k, 0) + VecMulTerm(a, b, k, 1) + VecMulTerm(a, b, k, 2)
            + VecMulTerm(a, b, k, 3) + VecMulTerm(a, b, k, 4)]

RECURSIVE Pow2(_)
Pow2(n) == IF n = 0 THEN 1 ELSE 2 * Pow2(n - 1)

\* 2 ** (fifths / period) for fifths >= 0
RootPow(fifths) == Vec(fifths % period, Pow2(fifths \div period))

\* two_to_pow(fifths / period) for fifths >= -period, as a fraction over 2
two_to_pow(fifths) == [num |-> RootPow(fifths + period), den |-> Vec(0, 2)]

Frac(num, den) == [num |-> num, den |-> den]

\* np.zeros
ZeroUnits == Frac(ZeroVec, Vec(0, 1))

NaNUnits == Frac(ZeroVec, ZeroVec)

IsNaNUnits(x) == x.num = ZeroVec /\ x.den = ZeroVec

FracAdd(x, y) ==
    IF x.den = y.den THEN Frac(VecAdd(x.num, y.num), x.den)
    ELSE Frac(VecAdd(VecMul(x.num, y.den), VecMul(y.num, x.den)), VecMul(x.den, y.den))

\* the years lookup: a five-year band per id, and one band that is not on the
\* five-year grid
years_lookup == [i \in 1..MaxPeriods |-> <<period * (i - 1) + 1, period * i>>] \o <<<<3, 7>>>>

\* the years of the build-out columns res_year_<YYYY> / emp_year_<YYYY>
unit_year_column == [i \in 1..MaxPeriods |-> period * (i - 1) + 1]

\* strip_year: the first year of the start band and the last of the end band
strip_year(row) ==
    [start_year |-> years_lookup[row.start_year_id][1],
     end_year |-> years_lookup[row.end_year_id][2]]

\* a window that is only tested against its first year
WithinYearsNoEnd(start_year, end_year, year) == year >= start_year

within_years(start_year, end_year, year) == year >= start_year /\ year <= end_year

\* periods = (end_year - start_year + 1) / period, kept as its number of years
PeriodYears(start_year, end_year) == end_year - start_year + 1

flat_distribution(unit, start_year, end_year, year) ==
    IF ~within_years(start_year, end_year, year) THEN ZeroUnits
    ELSE Frac(Vec(0, unit * period), Vec(0, PeriodYears(start_year, end_year)))

\* periods.apply(two_to_pow) - 1, over 2 like two_to_pow
GeometricTotal(years) == VecScale(VecSub(RootPow(years), Vec(0, 1)), 2)

early_distribution(unit, start_year, end_year, year) ==
    IF ~within_years(start_year, end_year, year) THEN ZeroUnits
    ELSE Frac(VecScale(two_to_pow(end_year - year - (period - 1)).num, unit),
              GeometricTotal(PeriodYears(start_year, end_year)))

late_distribution(unit, start_year, end_year, year) ==
    IF ~within_years(start_year, end_year, year) THEN ZeroUnits
    ELSE Frac(VecScale(two_to_pow(year - start_year).num, unit),
              GeometricTotal(PeriodYears(start_year, end_year)))

\* both halves of the window weighted alike
MidTotalEvenHalves(years) == 2 * (Pow2(years \div (2 * period)) - 1)

\* (2 ** floor((periods + 1) / 2) - 1) + (2 ** floor(periods / 2) - 1)
MidTotal(years) ==
    (Pow2((years + period) \div (2 * period)) - 1) + (Pow2(years \div (2 * period)) - 1)

\* determinator <= (periods + 1) / 2
less_than_bool(start_year, end_year, year) ==
    2 * (year - start_year) + period <= PeriodYears(start_year, end_year)

mid_distribution(unit, start_year, end_year, year) ==
    IF ~within_years(start_year, end_year, year) THEN ZeroUnits
    ELSE Frac(VecScale(IF less_than_bool(start_year, end_year, year)
                       THEN two_to_pow(year - start_year).num
                       ELSE two_to_pow(end_year - year - (period - 1)).num,
                       unit),
              Vec(0, 2 * MidTotal(PeriodYears(start_year, end_year))))

\* the distribution ids infill_year_units refuses: not specified, years defined
RefusedDistributions == {0, 1}

YearUnits(row, year) ==
    LET years == strip_year(row)
    IN  CASE row.distribution = 2 ->
                flat_distribution(row.unit, years.start_year, years.end_year, year)
          [] row.distribution = 3 ->
                early_distribution(row.unit, years.start_year, years.end_year, year)
          [] row.distribution = 4 ->
                late_distribution(row.unit, years.start_year, years.end_year, year)
          [] row.distribution = 5 ->
                mid_distribution(row.unit, years.start_year, years.end_year, year)
          [] OTHER -> NaNUnits

BuildRows ==
    [distribution : 0..5, start_year_id : DOMAIN years_lookup,
     end_year_id : DOMAIN years_lookup, unit : {0, 3}]

NoBuildRow == [distribution |-> 0, start_year_id |-> 1, end_year_id |-> 1, unit |-> 0]

NoBuildYears == [i \in DOMAIN unit_year_column |-> NaNUnits]

(***************************************************************************)
(* The run, over the columns its year and build-out passes read.           *)
(***************************************************************************)
\* data_report: missing_years is worked out afresh from the two years
data_report(data) ==
    [key \in Categories |->
        [i \in 1..Len(data[key]) |->
            [data[key][i] EXCEPT !.missing_years =
                IsMissingYear(data[key][i].start_year_id)
                    \/ IsMissingYear(data[key][i].end_year_id)]]]

\* a decision table that does not look at missing_years
InferredTagYearsIgnored(row) ==
    IF row.web_tag_certainty_id # 0 THEN row.web_tag_certainty_id
    ELSE IF row.planning_status_id = 2 THEN 2
    ELSE IF row.planning_status_id = 1 THEN 3
    ELSE IF row.planning_status_id = 0
    THEN (IF row.construction_status_id \in {2, 3} THEN 1 ELSE 4)
    ELSE 0

\* infill_missing_tag on a row
InferredTag(row) ==
    IF row.web_tag_certainty_id # 0 THEN row.web_tag_certainty_id
    ELSE IF row.planning_status_id = 2 THEN 2
    ELSE IF row.planning_status_id = 1 THEN (IF row.missing_years THEN 4 ELSE 3)
    ELSE IF row.planning_status_id = 0
    THEN (IF row.construction_status_id \in {2, 3} THEN 1 ELSE 4)
    ELSE 0

infill_missing_tag(data) ==
    [key \in Categories |->
        [i \in 1..Len(data[key]) |->
            [data[key][i] EXCEPT !.web_tag_certainty_id = InferredTag(data[key][i])]]]

infill_missing_years(data) ==
    LET average == calc_average_years_webtag_certainty(data)
        one_missing == infill_one_missing_year(data, average)
    IN  [key \in Categories |->
            [i \in 1..Len(one_missing[key]) |-> BothMissingRow(one_missing[key][i], average)]]

\* infill_year_units raises ValueError for a distribution it refuses
DistributionRefused(data) ==
    \E c \in YearCellsOf(data) : data[c[1]][c[2]].distribution \in RefusedDistributions

\* strip_year: .astype(int) raises for a row of a flat, early, late or mid
\* distribution whose year id is NaN
YearNotAnInteger(data) ==
    \E c \in YearCellsOf(data) :
        /\ data[c[1]][c[2]].distribution \in 2..5
        /\ data[c[1]][c[2]].start_year_id.nan \/ data[c[1]][c[2]].end_year_id.nan

\* the rows of a run: certainty given or not, planning permissioned or not,
\* each year there or not, a distribution refused or flat
RunRows ==
    [web_tag_certainty_id : {0, 1}, planning_status_id : {1, 2}, construction_status_id : {0},
     start_year_id : {NaN, Num(4)}, end_year_id : {NaN, Num(10)},
     missing_years : {FALSE}, distribution : {1, 2}]

RunTables == {[NoSites EXCEPT !["residential"] = rows] : rows \in SeqsUpTo(RunRows, MaxRunRows)}

(***************************************************************************)
(* analyse.find_missing_values.  A result is a frame of rows of the record,*)
(* kept here as the sequence of their index labels (positions in record).  *)
(***************************************************************************)
TestColumns == <<"start_year_id", "end_year_id">>

\* record[column].isna(), or record[column] == value for a value of not_allowed
IsNotAllowed(cell, values) ==
    cell.nan \/ \E k \in 1..Len(values) : cell.val = values[k]

\* record[all_missing_values.any(axis=1)]
RECURSIVE ColumnMatches(_, _, _, _)
ColumnMatches(rec, column, values, i) ==
    IF i > Len(rec) THEN <<>>
    ELSE (IF IsNotAllowed(rec[i][column], values) THEN <<i>> ELSE <<>>)
         \o ColumnMatches(rec, column, values, i + 1)

\* pd.concat(missing_values_df)
RECURSIVE ConcatMatches(_, _, _, _)
ConcatMatches(rec, columns, values, k) ==
    IF k > Len(columns) THEN <<>>
    ELSE ColumnMatches(rec, columns[k], values, 1) \o ConcatMatches(rec, columns, values, k + 1)

\* the key of drop_duplicates(subset=["site_reference_id", "site_name"]):
\* two missing ids are the same key
IdentityKey(row) == <<row.site_reference_id, row.site_name>>

\* drop_duplicates keeps the first row of each key
RECURSIVE drop_duplicates(_, _, _)
drop_duplicates(rec, idx, k) ==
    IF k > Len(idx) THEN <<>>
    ELSE (IF \E j \in 1..(k - 1) : IdentityKey(rec[idx[j]]) = IdentityKey(rec[idx[k]])
          THEN <<>> ELSE <<idx[k]>>)
         \o drop_duplicates(rec, idx, k + 1)

\* the order of sort_values(by="site_reference_id"): numbers ascending, NaN last
SortsBefore(x, y) == ~x.nan /\ (y.nan \/ x.val < y.val)

\* sort_values on a short frame keeps rows of equal id in the order they had
sort_values(rec, idx) ==
    LET id(k) == rec[idx[k]].site_reference_id
        rank(k) == 1 + Cardinality({j \in 1..Len(idx) :
                        SortsBefore(id(j), id(k)) \/ (~SortsBefore(id(k), id(j)) /\ j < k)})
    IN  [p \in 1..Len(idx) |-> idx[CHOOSE k \in 1..Len(idx) : rank(k) = p]]

find_missing_values(rec, columns, values) ==
    IF Len(columns) = 1
    THEN ColumnMatches(rec, columns[1], values, 1)
    ELSE sort_values(rec, drop_duplicates(rec, ConcatMatches(rec, columns, values, 1), 1))

RecordRows ==
    [site_reference_id : {NaN, Num(1), Num(2)}, site_name : {"x", "y"},
     start_year_id : {NaN, Num(4), Num(14)}, end_year_id : {NaN, Num(4), Num(14)}]

Records == SeqsUpTo(RecordRows, MaxRecord)

NotAllowedLists == {<<>>, <<14>>}

NoMatches == [column \in {TestColumns[k] : k \in 1..Len(TestColumns)} |-> <<>>]

(***************************************************************************)
(* analyse.analyse_invalid_luc over the tables, as data_report calls it:   *)
(* one column per category.  A frame is the sequence of the index labels   *)
(* of its rows.                                                            *)
(***************************************************************************)
\* record.loc[~exploded_land_use_codes.isin(...).all(axis=1)]
RECURSIVE InvalidRows(_, _)
InvalidRows(value, i) ==
    IF i > Len(value) THEN <<>>
    ELSE (IF find_invalid_land_use_codes(value[i].existing_land_use, allowed_codes)
          THEN <<i>> ELSE <<>>)
         \o InvalidRows(value, i + 1)

BucketTest(cell, name) ==
    CASE name = "out_of_date" -> out_of_date(cell)
      [] name = "incomplete" -> incomplete(cell)
      [] OTHER -> formatting(cell)

\* value.loc[exploded_land_use_codes.isin(...).any(axis=1)]
RECURSIVE BucketRows(_, _, _, _)
BucketRows(value, invalid, name, k) ==
    IF k > Len(invalid) THEN <<>>
    ELSE (IF BucketTest(value[invalid[k]].existing_land_use, name)
          THEN <<invalid[k]>> ELSE <<>>)
         \o BucketRows(value, invalid, name, k + 1)

\* value.drop(index=temp.index)
RECURSIVE DropIndex(_, _, _)
DropIndex(invalid, index, k) ==
    IF k > Len(invalid) THEN <<>>
    ELSE (IF invalid[k] \in Range(index) THEN <<>> ELSE <<invalid[k]>>)
         \o DropIndex(invalid, index, k + 1)

analyse_invalid_luc(value, invalid) ==
    LET out_of_date_output == BucketRows(value, invalid, "out_of_date", 1)
        incomplete_output == BucketRows(value, invalid, "incomplete", 1)
        wrong_format_output == BucketRows(value, invalid, "wrong_format", 1)
        temp == drop_duplicates(value,
                    wrong_format_output \o out_of_date_output \o incomplete_output, 1)
    IN  [out_of_date |-> out_of_date_output,
         wrong_format |-> wrong_format_output,
         incomplete |-> incomplete_output,
         other_issues |-> DropIndex(invalid, temp, 1)]

NoFrames == [key \in Categories |-> <<>>]

NoAnalysis ==
    [key \in Categories |->
        [out_of_date |-> <<>>, wrong_format |-> <<>>, incomplete |-> <<>>, other_issues |-> <<>>]]

InvalidCodeLists ==
    {<<c>> : c \in {"e(g)", "eg", "b1", "e", "zz"}}
        \cup {<<c, d>> : c, d \in {"eg", "b1", "zz"}}

InvalidCodeRows ==
    [site_reference_id : {NaN, Num(1)}, site_name : {"x", "y"},
     existing_land_use : {ListCell(codes) : codes \in InvalidCodeLists}]

InvalidCodeTables ==
    UNION {{[NoFrames EXCEPT ![key] = rows] : rows \in SeqsUpTo(InvalidCodeRows, MaxInvalid)}
            : key \in Categories}

(***************************************************************************)
(* data_report's filter columns and classify_data.  Of the filter columns *)
(* the model keeps those computed from the year, WebTAG, area, unit,       *)
(* coordinate, distribution and existing-land-use cells of the residential *)
(* table; the proposed-land-use, inactive-entry and contradiction columns  *)
(* are left out of every list below.                                       *)
(***************************************************************************)
\* find_multiple_missing_values: find_missing_values over [test_columns[key]],
\* a row qualifies when any of the columns is missing or not allowed
AnyNotAllowed(row, test_columns, values) ==
    \E k \in 1..Len(test_columns) : IsNotAllowed(row[test_columns[k]], values)

\* the subsets data_report finds, as the flags add_filter_column sets on a row
FilterColumnsOf(row) ==
    LET missing_ref == AnyNotAllowed(row, <<"site_reference_id">>, <<>>)
        missing_years_ == AnyNotAllowed(row, <<"start_year_id", "end_year_id">>, <<14>>)
        no_webtag == missing_years_ /\ AnyNotAllowed(row, <<"web_tag_certainty_id">>, <<0>>)
        missing_area_ == AnyNotAllowed(row, <<"total_site_area_size_hectares">>, <<0>>)
        all_missing_d_a == AnyNotAllowed(row, <<"total_units">>, <<0>>)
        missing_d_a_no_sa == all_missing_d_a
                                /\ AnyNotAllowed(row, <<"total_site_area_size_hectares">>, <<0>>)
    IN  [missing_site_ref |-> missing_ref,
         missing_years |-> missing_years_,
         missing_years_no_webtag |-> no_webtag,
         missing_years_with_webtag |-> missing_years_ /\ ~no_webtag,
         missing_area |-> missing_area_,
         missing_gfa_or_dwellings_no_site_area |-> missing_d_a_no_sa,
         missing_gfa_or_dwellings_with_site_area |-> all_missing_d_a /\ ~missing_d_a_no_sa,
         missing_coords |-> AnyNotAllowed(row, <<"easting", "northing">>, <<>>),
         missing_dist |-> AnyNotAllowed(row, <<"res_distribution">>, <<0>>)]

\* invalid_land_use_report: the rows with a code that is not in the table, and
\* the subsets analyse_invalid_luc makes of them
LandUseFilterColumns(value, i) ==
    LET invalid == InvalidRows(value, 1)
        eluc_analysis == analyse_invalid_luc(value, invalid)
    IN  [all_invalid_existing_land_use_code |-> i \in Range(invalid),
         wrong_format_existing_land_use_code |-> i \in Range(eluc_analysis.wrong_format),
         out_of_date_existing_land_use_code |-> i \in Range(eluc_analysis.out_of_date),
         incomplete_existing_land_use_code |-> i \in Range(eluc_analysis.incomplete),
         other_issues_existing_land_use_code |-> i \in Range(eluc_analysis.other_issues)]

\* a report that did not record the name of the missing_coords column
FilterColumnsCoordsLost ==
    <<"missing_site_ref", "all_invalid_existing_land_use_code",
      "wrong_format_existing_land_use_code", "out_of_date_existing_land_use_code",
      "incomplete_existing_land_use_code", "other_issues_existing_land_use_code",
      "missing_years", "missing_years_no_webtag",
      "missing_years_with_webtag", "missing_area", "missing_gfa_or_dwellings_no_site_area",
      "missing_gfa_or_dwellings_with_site_area", "missing_dist">>

\* results_report.filter_columns: the names in the order data_report adds them
filter_columns ==
    <<"missing_site_ref", "all_invalid_existing_land_use_code",
      "wrong_format_existing_land_use_code", "out_of_date_existing_land_use_code",
      "incomplete_existing_land_use_code", "other_issues_existing_land_use_code",
      "missing_years", "missing_years_no_webtag",
      "missing_years_with_webtag", "missing_area", "missing_gfa_or_dwellings_no_site_area",
      "missing_gfa_or_dwellings_with_site_area", "missing_coords", "missing_dist">>

user_intervention_required == <<"missing_coords">>

non_fatal_columns == <<"missing_area">>

\* a list without the land-use column
AutofixColumnsNoLandUse ==
    <<"missing_site_ref", "missing_gfa_or_dwellings_with_site_area", "missing_dist",
      "missing_years_with_webtag", "missing_gfa_or_dwellings_no_site_area",
      "missing_years_no_webtag">>

autofix_columns ==
    <<"missing_site_ref", "all_invalid_existing_land_use_code",
      "missing_gfa_or_dwellings_with_site_area", "missing_dist",
      "missing_years_with_webtag", "missing_gfa_or_dwellings_no_site_area",
      "missing_years_no_webtag">>

\* value[value.loc[:, columns].any(axis=1)], as the set of its row labels
AnyOf(filter, columns) ==
    {i \in 1..Len(filter) : \E k \in 1..Len(columns) : filter[i][columns[k]]}

classify_data(filter, auto_fix_columns, intervention_required_columns, non_fatal) ==
    [invalid |-> AnyOf(filter, filter_columns),
     valid |-> (1..Len(filter)) \ AnyOf(filter, filter_columns),
     intervention_required |-> AnyOf(filter, intervention_required_columns),
     non_fatal |-> AnyOf(filter, non_fatal),
     auto_fixes |-> AnyOf(filter, auto_fix_columns)]

NoBuckets ==
    [invalid |-> {}, valid |-> {}, intervention_required |-> {}, non_fatal |-> {},
     auto_fixes |-> {}]

ReportRows ==
    [site_reference_id : {Num(1)}, site_name : {"x"},
     existing_land_use : {ListCell(<<"e(g)">>), ListCell(<<"b1">>)},
     start_year_id : {Num(4), Num(14)},
     end_year_id : {Num(10)}, web_tag_certainty_id : {Num(0), Num(1)},
     total_site_area_size_hectares : {Num(0), Num(2)}, total_units : {NaN, Num(5)},
     easting : {NaN, Num(1)}, northing : {Num(1)}, res_distribution : {Num(2)}]

ReportTables == SeqsUpTo(ReportRows, MaxReportRows)

TagRows ==
    [web_tag_certainty_id : {0, 1}, planning_status_id : {0, 1, 2, 3},
     construction_status_id : {0, 2, 3}, start_year_id : {NaN, Num(4)},
     end_year_id : {Num(10)}, missing_years : {FALSE}, distribution : {2}]

TagTables ==
    {[NoSites EXCEPT !["residential"] = rows] : rows \in SeqsUpTo(TagRows, MaxTagRows)}

(***************************************************************************)
(* user_fixes.infill_user_inputs.  A table carries one build-out column,  *)
(* which the user may not edit, and one unit column, which the user may;   *)
(* the sheet of the edited file has the rows of the table, by index.       *)
(***************************************************************************)
uneditable_columns == <<"year_units">>

UserColumns == <<"year_units", "units">>

\* value[uneditable_columns[key]]
ColumnsOf(value, columns) ==
    [i \in 1..Len(value) |-> [k \in 1..Len(columns) |-> value[i][columns[k]]]]

\* value[...].equals(data_subset[...]): same shape and the same elements, two
\* NaN in the same place being the same
Equals(value, subset, columns) == ColumnsOf(value, columns) = ColumnsOf(subset, columns)

\* DataFrame.update: a cell of the other frame that is not NaN overwrites
Update(value, subset) ==
    [i \in 1..Len(value) |->
        IF i > Len(subset) THEN value[i]
        ELSE [column \in DOMAIN value[i] |->
                IF subset[i][column].nan THEN value[i][column] ELSE subset[i][column]]]

\* the loop over data.items(): ValueError at the first table whose uneditable
\* columns equal those of the edited sheet
UserInputsRaise(data, subset) ==
    \E k \in 1..Len(CategoryOrder) :
        Equals(data[CategoryOrder[k]], subset[CategoryOrder[k]], uneditable_columns)

infill_user_inputs(data, subset) ==
    [key \in Categories |-> Update(data[key], subset[key])]

UserRows == [year_units : {Num(0), Num(3)}, units : {NaN, Num(2)}]

UserTables == [Categories -> SeqsUpTo(UserRows, MaxUserRows)]

\* the edited file holds the rows the file written for the user held
EditsOf(data) ==
    {subset \in UserTables : \A key \in Categories : Len(subset[key]) = Len(data[key])}

(***************************************************************************)
(* analyse.find_missing_ids.                                               *)
(***************************************************************************)
\* len(pd.merge(ids_s, ids_l, how="inner")): one row for every pair of equal
\* ids, one from each series
MergeLen(s_ids, l_ids) ==
    Cardinality({p \in (1..Len(s_ids)) \X (1..Len(l_ids)) : s_ids[p[1]] = l_ids[p[2]]})

FindMissingIdsRaises(l_ids, s_ids) == MergeLen(s_ids, l_ids) # Len(s_ids)

\* ids_l[~ids_l.isin(ids_s)]
RECURSIVE NotIsIn(_, _, _)
NotIsIn(l_ids, s_ids, i) ==
    IF i > Len(l_ids) THEN <<>>
    ELSE (IF l_ids[i] \in Range(s_ids) THEN <<>> ELSE <<l_ids[i]>>)
         \o NotIsIn(l_ids, s_ids, i + 1)

find_missing_ids(l_ids, s_ids) == NotIsIn(l_ids, s_ids, 1)

IdSeries == SeqsUpTo({1, 2, 3}, MaxIds)

(***************************************************************************)
(* The passes of correct_inavlid_syntax and infill_data, followed on the  *)
(* area and unit columns.  _regression_area_infill infills with the        *)
(* predictions of a HistGradientBoostingRegressor: a prediction is any     *)
(* value of Predictions, and fitting on no rows raises.                    *)
(***************************************************************************)
GFAInfillMethod == {"mean", "regression", "regression_no_negatives"}

regression_methods == {"regression", "regression_no_negatives"}

\* the loop body of _regression_area_infill with the site area first
RegressionStepsAreaFirst == <<"site_area", "units">>

\* the loop body of _regression_area_infill: the unit columns, then the site
\* area
RegressionSteps == <<"units", "site_area">>

Predictions == {Rat(1, 1), Rat(3, 1)}

\* _check_infill_column: the rows to infill and the rows to train on
InfillRows(value, column) ==
    {i \in 1..Len(value) :
        IF column = "area" THEN value[i].area.nan ELSE value[i].units[column].nan}

TrainingRows(value, column) == (1..Len(value)) \ InfillRows(value, column)

\* gradient_boosting.fit on an empty training set
RegressionRaises(value, columns) ==
    \E column \in columns :
        InfillRows(value, column) # {} /\ TrainingRows(value, column) = {}

\* infilled_df.loc[infill_indices.infill, units_col] = predictions
RegressionUnits(value, columns, prediction) ==
    [i \in 1..Len(value) |->
        [value[i] EXCEPT !.units =
            [u \in DOMAIN value[i].units |->
                IF u \in columns /\ value[i].units[u].nan THEN prediction
                ELSE value[i].units[u]]]]

\* infilled_df.loc[infill_indices.infill, area_col] = predictions
RegressionArea(value, prediction) ==
    [i \in 1..Len(value) |->
        IF value[i].area.nan THEN [value[i] EXCEPT !.area = prediction] ELSE value[i]]

Executed(name, key) == [pass |-> name, key |-> key]

OrderRows(key) == [area : {NaNRat, Rat(2, 1)}, units : [_UNITS_COLUMNS[key] -> {NaNRat, Rat(4, 1)}]]

OrderTables ==
    UNION {{[NoSites EXCEPT ![key] = rows] : rows \in SeqsUpTo(OrderRows(key), MaxOrderRows)} :
            key \in {"residential", "employment"}}

(***************************************************************************)
(* The user-fix loop.  A round is one call of implement_user_fixes, the    *)
(* post-user-fix report and the prompt to continue.  The operator answers  *)
(* the prompts; y_n_user_input asks again until the answer is a yes or a   *)
(* no, so an answer is a boolean.                                          *)
(***************************************************************************)
NoFile == [exists |-> FALSE, content |-> NoSites]

\* user_input_file_builder: write_to_excel of the tables, over what is there
user_input_file_builder(input_data) == [exists |-> TRUE, content |-> input_data]

Asked(round, prompt, answer) == [round |-> round, prompt |-> prompt, answer |-> answer]

\* an audit that takes the original for the modified data
AuditSwapped(written, input_modified, input_original) ==
    Append(written, [modified |-> input_original, original |-> input_modified])

\* create_user_changes_audit(file_path, input_modified, input_original)
create_user_changes_audit(written, input_modified, input_original) ==
    Append(written, [modified |-> input_modified, original |-> input_original])

FixTables == {[NoSites EXCEPT !["residential"] = <<row>>] : row \in UserRows}

(***************************************************************************)
(* inputs.DLitConfig.  A section of the configuration is left out, given  *)
(* as null, or given; a land_use section that is given has a               *)
(* land_use_input or has none.  pydantic runs the validator of a field     *)
(* only on a value that was given (the validators are not declared         *)
(* always=True); a field left out takes its default, None, unvalidated.    *)
(***************************************************************************)
InfillSections == {"left_out", "null", "given"}

LandUseSections == {"left_out", "null", "given_without_input", "given_with_input"}

Configs ==
    [run_infill : BOOLEAN, run_land_use : BOOLEAN,
     infill : InfillSections, land_use : LandUseSections]

IsNone(section) == section \in {"left_out", "null"}

\* DLitConfig.check_running_infill: the errors it adds
check_running_infill(values) ==
    IF values.infill = "left_out" THEN {}
    ELSE IF ~values.run_infill /\ IsNone(values.infill)
    THEN {"infill is required if run_infill is true"}
    ELSE {}

\* DLitConfig.land_use_input_check
land_use_input_check(values) ==
    IF values.land_use = "left_out" THEN {}
    ELSE IF ~values.run_land_use THEN {}
    ELSE IF IsNone(values.land_use)
    THEN {"land_use required if run_land_use is true"}
    ELSE IF ~values.run_infill /\ values.land_use = "given_without_input"
    THEN {"land_use_input value required if not running infilling"}
    ELSE {}

\* DLitConfig.check_running, the root validator
check_running(values) ==
    IF ~values.run_infill /\ ~values.run_land_use
    THEN {"run_infill and run_land_use cannot both be false"}
    ELSE {}

(***************************************************************************)
(* SpecLuc: one cell, one lookup table; the resolver is applied to the     *)
(* cell and then once more to what it returned.                            *)
(***************************************************************************)
CellValues == {ListCell(s) : s \in SeqsUpTo(Codes, MaxLen)} \cup {NullCell, NumCell}

CyclicPairs == {<<"a", "b">>, <<"b", "c">>, <<"c", "a">>}

Replacements ==
    {StrRepl(c) : c \in Codes} \cup {ListRepl(<<c>>) : c \in Codes}
        \cup {ListRepl(p) : p \in CyclicPairs} \cup {OtherRepl}

LookupRows == [find : Codes, replace : Replacements]

\* lookup tables are keyed by their find column
LookupTables ==
    {t \in SeqsUpTo(LookupRows, MaxRows) :
        \A i, j \in 1..Len(t) : i # j => t[i].find # t[j].find}

NoResult == [ret |-> NullCell, arg |-> NullCell, same |-> FALSE]

(***************************************************************************)
(* SpecLand: infill_landuse_codes over tables that the classifier          *)
(* (data_report) has just annotated.                                       *)
(***************************************************************************)
LandLists == {ListCell(s) : s \in SeqsUpTo(LandCodes, MaxLen)}

LandRow(existing, proposed, key) ==
    [lu |-> [column \in LandColumns |->
                IF column = "existing_land_use" THEN FreshCell(existing)
                ELSE FreshCell(proposed)],
     other_issues |-> [column \in LandColumns |->
                IF column \notin _LAND_USE_COLUMNS[key] THEN FALSE
                ELSE IF column = "existing_land_use" THEN other_issues(existing)
                ELSE other_issues(proposed)]]

LandTables ==
    {[EmptyTables EXCEPT !["residential"] = <<LandRow(e, ListCell(<<>>), "residential")>>] :
        e \in LandLists}
    \cup {[EmptyTables EXCEPT ![key] = <<LandRow(e, p, key)>>] :
        e \in LandLists, p \in LandLists, key \in {"employment", "mixed"}}

(***************************************************************************)
(* The resting values of each part: a specification leaves the variables  *)
(* of the other parts at rest.                                             *)
(***************************************************************************)
LucIdle ==
    /\ luc_pc = "idle"
    /\ luc_entry = NullCell
    /\ lookup_table = <<>>
    /\ luc_first = NoResult
    /\ luc_second = NoResult

LandIdle ==
    /\ land_pc = "idle"
    /\ land_in = EmptyTables
    /\ land_data = EmptyTables

IdsIdle ==
    /\ ids_pc = "idle"
    /\ ids_in = NoSites
    /\ fixed_ids = NoSites
    /\ overall_max_id_value = 0
    /\ ids_key = 0

YrIdle ==
    /\ yr_pc = "idle"
    /\ yr_in = NoSites
    /\ yr_data = NoSites
    /\ average_years = NoAverageYears

AreaIdle ==
    /\ area_pc = "idle"
    /\ area_in = NoSites
    /\ area_data = NoSites
    /\ infill_averages = NoAverages

BuildIdle ==
    /\ build_pc = "idle"
    /\ build_row = NoBuildRow
    /\ build_years = NoBuildYears
    /\ build_col = 0

RunIdle ==
    /\ run_pc = "idle"
    /\ run_data = NoSites
    /\ user_infill = FALSE
    /\ run_error = "none"

MvIdle ==
    /\ mv_pc = "idle"
    /\ record = <<>>
    /\ not_allowed = <<>>
    /\ missing_single = NoMatches
    /\ missing_both = <<>>

BkIdle ==
    /\ bk_pc = "idle"
    /\ luc_data = NoFrames
    /\ invalid_luc = NoFrames
    /\ luc_analysis = NoAnalysis

ClIdle ==
    /\ cl_pc = "idle"
    /\ res_data = <<>>
    /\ data_filter = <<>>
    /\ classified_data = NoBuckets

TagIdle ==
    /\ tag_pc = "idle"
    /\ tag_in = NoSites
    /\ tag_data = NoSites

UserIdle ==
    /\ user_pc = "idle"
    /\ user_data = NoSites
    /\ data_subset = NoSites
    /\ infilled_data = NoSites

FmIdle ==
    /\ fm_pc = "idle"
    /\ ids_l = <<>>
    /\ ids_s = <<>>
    /\ missing_ids = <<>>

OrdIdle ==
    /\ ord_pc = "idle"
    /\ gfa_method = "mean"
    /\ ord_data = NoSites
    /\ ord_averages = NoAverages
    /\ passes = <<>>
    /\ ord_dtype = 0
    /\ ord_step = 0

FixIdle ==
    /\ fix_pc = "idle"
    /\ syntax_fixed_data = NoSites
    /\ data_to_fix = NoSites
    /\ user_fixed_data = NoSites
    /\ user_input_file = NoFile
    /\ prompts = <<>>
    /\ audits = <<>>
    /\ fix_round = 0

CfgIdle ==
    /\ cfg_pc = "idle"
    /\ config_values = [run_infill |-> FALSE, run_land_use |-> FALSE,
                        infill |-> "left_out", land_use |-> "left_out"]
    /\ cfg_errors = {}

\* ---- each part alone ----

LucAlone == LandIdle /\ IdsIdle /\ YrIdle /\ AreaIdle /\ BuildIdle /\ RunIdle /\ MvIdle /\ BkIdle /\ ClIdle /\ TagIdle /\ UserIdle /\ FmIdle /\ OrdIdle /\ FixIdle /\ CfgIdle
LandAlone == LucIdle /\ IdsIdle /\ YrIdle /\ AreaIdle /\ BuildIdle /\ RunIdle /\ MvIdle /\ BkIdle /\ ClIdle /\ TagIdle /\ UserIdle /\ FmIdle /\ OrdIdle /\ FixIdle /\ CfgIdle
IdsAlone == LucIdle /\ LandIdle /\ YrIdle /\ AreaIdle /\ BuildIdle /\ RunIdle /\ MvIdle /\ BkIdle /\ ClIdle /\ TagIdle /\ UserIdle /\ FmIdle /\ OrdIdle /\ FixIdle /\ CfgIdle
YrAlone == LucIdle /\ LandIdle /\ IdsIdle /\ AreaIdle /\ BuildIdle /\ RunIdle /\ MvIdle /\ BkIdle /\ ClIdle /\ TagIdle /\ UserIdle /\ FmIdle /\ OrdIdle /\ FixIdle /\ CfgIdle
AreaAlone == LucIdle /\ LandIdle /\ IdsIdle /\ YrIdle /\ BuildIdle /\ RunIdle /\ MvIdle /\ BkIdle /\ ClIdle /\ TagIdle /\ UserIdle /\ FmIdle /\ OrdIdle /\ FixIdle /\ CfgIdle
BuildAlone == LucIdle /\ LandIdle /\ IdsIdle /\ YrIdle /\ AreaIdle /\ RunIdle /\ MvIdle /\ BkIdle /\ ClIdle /\ TagIdle /\ UserIdle /\ FmIdle /\ OrdIdle /\ FixIdle /\ CfgIdle
RunAlone == LucIdle /\ LandIdle /\ IdsIdle /\ YrIdle /\ AreaIdle /\ BuildIdle /\ MvIdle /\ BkIdle /\ ClIdle /\ TagIdle /\ UserIdle /\ FmIdle /\ OrdIdle /\ FixIdle /\ CfgIdle
MvAlone == LucIdle /\ LandIdle /\ IdsIdle /\ YrIdle /\ AreaIdle /\ BuildIdle /\ RunIdle /\ BkIdle /\ ClIdle /\ TagIdle /\ UserIdle /\ FmIdle /\ OrdIdle /\ FixIdle /\ CfgIdle
BkAlone == LucIdle /\ LandIdle /\ IdsIdle /\ YrIdle /\ AreaIdle /\ BuildIdle /\ RunIdle /\ MvIdle /\ ClIdle /\ TagIdle /\ UserIdle /\ FmIdle /\ OrdIdle /\ FixIdle /\ CfgIdle
ClAlone == LucIdle /\ LandIdle /\ IdsIdle /\ YrIdle /\ AreaIdle /\ BuildIdle /\ RunIdle /\ MvIdle /\ BkIdle /\ TagIdle /\ UserIdle /\ FmIdle /\ OrdIdle /\ FixIdle /\ CfgIdle
TagAlone == LucIdle /\ LandIdle /\ IdsIdle /\ YrIdle /\ AreaIdle /\ BuildIdle /\ RunIdle /\ MvIdle /\ BkIdle /\ ClIdle /\ UserIdle /\ FmIdle /\ OrdIdle /\ FixIdle /\ CfgIdle
UserAlone == LucIdle /\ LandIdle /\ IdsIdle /\ YrIdle /\ AreaIdle /\ BuildIdle /\ RunIdle /\ MvIdle /\ BkIdle /\ ClIdle /\ TagIdle /\ FmIdle /\ OrdIdle /\ FixIdle /\ CfgIdle
FmAlone == LucIdle /\ LandIdle /\ IdsIdle /\ YrIdle /\ AreaIdle /\ BuildIdle /\ RunIdle /\ MvIdle /\ BkIdle /\ ClIdle /\ TagIdle /\ UserIdle /\ OrdIdle /\ FixIdle /\ CfgIdle
OrdAlone == LucIdle /\ LandIdle /\ IdsIdle /\ YrIdle /\ AreaIdle /\ BuildIdle /\ RunIdle /\ MvIdle /\ BkIdle /\ ClIdle /\ TagIdle /\ UserIdle /\ FmIdle /\ FixIdle /\ CfgIdle
FixAlone == LucIdle /\ LandIdle /\ IdsIdle /\ YrIdle /\ AreaIdle /\ BuildIdle /\ RunIdle /\ MvIdle /\ BkIdle /\ ClIdle /\ TagIdle /\ UserIdle /\ FmIdle /\ OrdIdle /\ CfgIdle
CfgAlone == LucIdle /\ LandIdle /\ IdsIdle /\ YrIdle /\ AreaIdle /\ BuildIdle /\ RunIdle /\ MvIdle /\ BkIdle /\ ClIdle /\ TagIdle /\ UserIdle /\ FmIdle /\ OrdIdle /\ FixIdle

\* ---- specifications ----

LucInit ==
    /\ luc_pc = "input"
    /\ luc_entry \in CellValues
    /\ lookup_table \in LookupTables
    /\ luc_first = NoResult
    /\ luc_second = NoResult
    /\ LucAlone

FirstPass ==
    /\ luc_pc = "input"
    /\ luc_first' = find_and_replace_luc(luc_entry, lookup_table, NoFill)
    /\ luc_pc' = "once"
    /\ UNCHANGED <<luc_entry, lookup_table, luc_second, restOfLuc>>

SecondPass ==
    /\ luc_pc = "once"
    /\ luc_second' = find_and_replace_luc(luc_first.ret, lookup_table, NoFill)
    /\ luc_pc' = "twice"
    /\ UNCHANGED <<luc_entry, lookup_table, luc_first, restOfLuc>>

LucNext == FirstPass \/ SecondPass

SpecLuc == LucInit /\ [][LucNext]_vars


LandInit ==
    /\ land_pc = "classified"
    /\ land_in \in LandTables
    /\ land_data = land_in
    /\ LandAlone

OldIncompleteKnownLuc ==
    /\ land_pc = "classified"
    /\ land_data' = old_incomplete_known_luc(land_data)
    /\ land_pc' = "lookups"
    /\ UNCHANGED <<land_in, restOfLand>>

FixMissingLucs ==
    /\ land_pc = "lookups"
    /\ land_data' = fix_missing_lucs(land_data, allowed_codes)
    /\ land_pc' = "missing"
    /\ UNCHANGED <<land_in, restOfLand>>

FixUndefinedInvalidLuc ==
    /\ land_pc = "missing"
    /\ land_data' = fix_undefined_invalid_luc(land_data, allowed_codes)
    /\ land_pc' = "done"
    /\ UNCHANGED <<land_in, restOfLand>>

LandNext == OldIncompleteKnownLuc \/ FixMissingLucs \/ FixUndefinedInvalidLuc

SpecLand == LandInit /\ [][LandNext]_vars

(***************************************************************************)
(* SpecIds: fix_site_ref_id over three tables of site records.             *)
(***************************************************************************)
IdsInit ==
    /\ ids_pc = "start"
    /\ ids_in \in SiteTables
    /\ fixed_ids = NoSites
    /\ overall_max_id_value = 0
    /\ ids_key = 0
    /\ IdsAlone

\* the first loop
FindMaxIdValue ==
    /\ ids_pc = "start"
    /\ overall_max_id_value' = FindMaxId(ids_in, 0, 1)
    /\ ids_key' = 1
    /\ ids_pc' = "infill"
    /\ UNCHANGED <<ids_in, fixed_ids, restOfIds>>

\* one turn of the second loop
InfillCategoryIds ==
    /\ ids_pc = "infill"
    /\ LET key == CategoryOrder[ids_key]
           value == ids_in[key]
           new_ids == NewIds(overall_max_id_value, Cardinality(MissingIds(value)))
       IN  IF MissingIds(value) = {}
           THEN /\ fixed_ids' = [fixed_ids EXCEPT ![key] = value]
                /\ UNCHANGED overall_max_id_value
           ELSE /\ fixed_ids' = [fixed_ids EXCEPT ![key] = InfilledSites(value, new_ids)]
                /\ overall_max_id_value' = MaxCarried(overall_max_id_value, new_ids)
    /\ IF ids_key = Len(CategoryOrder)
       THEN ids_pc' = "done" /\ UNCHANGED ids_key
       ELSE ids_key' = ids_key + 1 /\ UNCHANGED ids_pc
    /\ UNCHANGED <<ids_in, restOfIds>>

IdsNext == FindMaxIdValue \/ InfillCategoryIds

SpecIds == IdsInit /\ [][IdsNext]_vars

(***************************************************************************)
(* SpecYears: infill_missing_years over tables that data_report has        *)
(* annotated with missing_years.                                           *)
(***************************************************************************)
YrInit ==
    /\ yr_pc = "start"
    /\ yr_in \in YearTables
    /\ yr_data = yr_in
    /\ average_years = NoAverageYears
    /\ YrAlone

CalcAverageYears ==
    /\ yr_pc = "start"
    /\ IF AverageYearsRaises(yr_data)
       THEN yr_pc' = "raised" /\ UNCHANGED average_years
       ELSE /\ average_years' = calc_average_years_webtag_certainty(yr_data)
            /\ yr_pc' = "averaged"
    /\ UNCHANGED <<yr_in, yr_data, restOfYr>>

InfillOneMissingYear ==
    /\ yr_pc = "averaged"
    /\ yr_data' = infill_one_missing_year(yr_data, average_years)
    /\ yr_pc' = "one_missing"
    /\ UNCHANGED <<yr_in, average_years, restOfYr>>

InfillBothMissingYears ==
    /\ yr_pc = "one_missing"
    /\ yr_data' = [key \in Categories |->
                    [i \in 1..Len(yr_data[key]) |-> BothMissingRow(yr_data[key][i], average_years)]]
    /\ yr_pc' = "done"
    /\ UNCHANGED <<yr_in, average_years, restOfYr>>

YrNext == CalcAverageYears \/ InfillOneMissingYear \/ InfillBothMissingYears

SpecYears == YrInit /\ [][YrNext]_vars

(***************************************************************************)
(* SpecArea: infill_data's MEAN branch, _average_factors followed by       *)
(* _average_area_infill.                                                   *)
(***************************************************************************)
AreaInit ==
    /\ area_pc = "start"
    /\ area_in \in AreaTables
    /\ area_data = area_in
    /\ infill_averages = NoAverages
    /\ AreaAlone

AverageFactors ==
    /\ area_pc = "start"
    /\ infill_averages' = _average_factors(area_data)
    /\ area_pc' = "averages"
    /\ UNCHANGED <<area_in, area_data, restOfArea>>

InfillMissingSiteArea ==
    /\ area_pc = "averages"
    /\ area_data' = infill_missing_site_area(area_data, infill_averages.average_area)
    /\ area_pc' = "site_area"
    /\ UNCHANGED <<area_in, infill_averages, restOfArea>>

InfillUnits ==
    /\ area_pc = "site_area"
    /\ area_data' = infill_units(area_data, Categories, _UNITS_COLUMNS,
            [key \in Categories |->
                IF key = "residential" THEN infill_averages.average_dwelling_site_area_ratio
                ELSE infill_averages.average_gfa_site_area_ratio])
    /\ area_pc' = "units"
    /\ UNCHANGED <<area_in, infill_averages, restOfArea>>

InfillMixedDwellings ==
    /\ area_pc = "units"
    /\ area_data' = infill_units(area_data, {"mixed"},
            [key \in Categories |-> {"dwellings", "units_(dwellings)"}],
            [key \in Categories |-> infill_averages.average_dwelling_site_area_ratio])
    /\ area_pc' = "done"
    /\ UNCHANGED <<area_in, infill_averages, restOfArea>>

AreaNext == AverageFactors \/ InfillMissingSiteArea \/ InfillUnits \/ InfillMixedDwellings

SpecArea == AreaInit /\ [][AreaNext]_vars

(***************************************************************************)
(* SpecBuild: infill_year_units over a table of one row.                   *)
(***************************************************************************)
BuildInit ==
    /\ build_pc = "start"
    /\ build_row \in BuildRows
    /\ build_years = NoBuildYears
    /\ build_col = 0
    /\ BuildAlone

\* raise ValueError if a row is not specified or years defined
CheckDistribution ==
    /\ build_pc = "start"
    /\ IF build_row.distribution \in RefusedDistributions
       THEN build_pc' = "raised" /\ UNCHANGED build_col
       ELSE build_pc' = "columns" /\ build_col' = 1
    /\ UNCHANGED <<build_row, build_years, restOfBuild>>

\* one turn of the loop over unit_year_column; data.update leaves a column
\* alone where the value worked out is NaN
FillYearColumn ==
    /\ build_pc = "columns"
    /\ LET units == YearUnits(build_row, unit_year_column[build_col])
       IN  build_years' = IF IsNaNUnits(units) THEN build_years
                          ELSE [build_years EXCEPT ![build_col] = units]
    /\ IF build_col = Len(unit_year_column)
       THEN build_pc' = "done" /\ UNCHANGED build_col
       ELSE build_col' = build_col + 1 /\ UNCHANGED build_pc
    /\ UNCHANGED <<build_row, restOfBuild>>

BuildNext == CheckDistribution \/ FillYearColumn

SpecBuild == BuildInit /\ [][BuildNext]_vars

(***************************************************************************)
(* SpecRun: infilling.run from the parsed tables to the written output.   *)
(***************************************************************************)
RunInit ==
    /\ run_pc = "parsed"
    /\ run_data \in RunTables
    /\ user_infill \in BOOLEAN
    /\ run_error = "none"
    /\ RunAlone

InitialReport ==
    /\ run_pc = "parsed"
    /\ run_data' = data_report(run_data)
    /\ run_pc' = "reported"
    /\ UNCHANGED <<user_infill, run_error, restOfRun>>

\* correct_inavlid_syntax changes none of the columns carried here
CorrectInvalidSyntax ==
    /\ run_pc = "reported"
    /\ run_pc' = "syntax_fixed"
    /\ UNCHANGED <<run_data, user_infill, run_error, restOfRun>>

SyntaxFixedReport ==
    /\ run_pc = "syntax_fixed"
    /\ run_data' = data_report(run_data)
    /\ run_pc' = IF user_infill THEN "user_fixes" ELSE "to_fix"
    /\ UNCHANGED <<user_infill, run_error, restOfRun>>

\* user_fixes.implement_user_fixes takes four parameters (config, dlog_data,
\* auxiliary_data, plot_graphs) and run passes five arguments: the call raises
\* TypeError before the operator is asked anything, and the return on None,
\* the post-user-fix report and the change audit are not reached
ImplementUserFixes ==
    /\ run_pc = "user_fixes"
    /\ run_pc' = "raised"
    /\ run_error' = "TypeError"
    /\ UNCHANGED <<run_data, user_infill, restOfRun>>

\* infill_data up to the area infill: none of the columns carried here changes
InfillLandUseAndArea ==
    /\ run_pc = "to_fix"
    /\ run_pc' = "area_infilled"
    /\ UNCHANGED <<run_data, user_infill, run_error, restOfRun>>

InfillMissingTag ==
    /\ run_pc = "area_infilled"
    /\ run_data' = infill_missing_tag(run_data)
    /\ run_pc' = "tag_infilled"
    /\ UNCHANGED <<user_infill, run_error, restOfRun>>

InfillMissingYears ==
    /\ run_pc = "tag_infilled"
    /\ IF AverageYearsRaises(run_data)
       THEN run_pc' = "raised" /\ run_error' = "IndexError" /\ UNCHANGED run_data
       ELSE /\ run_data' = infill_missing_years(run_data)
            /\ run_pc' = "infilled"
            /\ UNCHANGED run_error
    /\ UNCHANGED <<user_infill, restOfRun>>

\* the calls of infill_year_units
BuildOutProfiles ==
    /\ run_pc = "infilled"
    /\ IF DistributionRefused(run_data) \/ YearNotAnInteger(run_data)
       THEN run_pc' = "raised" /\ run_error' = "ValueError"
       ELSE run_pc' = "built" /\ UNCHANGED run_error
    /\ UNCHANGED <<run_data, user_infill, restOfRun>>

PostFixReport ==
    /\ run_pc = "built"
    /\ run_data' = data_report(run_data)
    /\ run_pc' = "post_fix_reported"
    /\ UNCHANGED <<user_infill, run_error, restOfRun>>

WriteOutput ==
    /\ run_pc = "post_fix_reported"
    /\ run_pc' = "written"
    /\ UNCHANGED <<run_data, user_infill, run_error, restOfRun>>

RunNext ==
    \/ InitialReport \/ CorrectInvalidSyntax \/ SyntaxFixedReport
    \/ ImplementUserFixes
    \/ InfillLandUseAndArea \/ InfillMissingTag \/ InfillMissingYears
    \/ BuildOutProfiles \/ PostFixReport \/ WriteOutput

SpecRun == RunInit /\ [][RunNext]_vars

(***************************************************************************)
(* SpecMissing: find_missing_values over each of two columns and over     *)
(* both.                                                                   *)
(***************************************************************************)
MvInit ==
    /\ mv_pc = "start"
    /\ record \in Records
    /\ not_allowed \in NotAllowedLists
    /\ missing_single = NoMatches
    /\ missing_both = <<>>
    /\ MvAlone

SingleColumnCalls ==
    /\ mv_pc = "start"
    /\ missing_single' = [column \in DOMAIN NoMatches |->
                            find_missing_values(record, <<column>>, not_allowed)]
    /\ mv_pc' = "single"
    /\ UNCHANGED <<record, not_allowed, missing_both, restOfMv>>

TwoColumnCall ==
    /\ mv_pc = "single"
    /\ missing_both' = find_missing_values(record, TestColumns, not_allowed)
    /\ mv_pc' = "done"
    /\ UNCHANGED <<record, not_allowed, missing_single, restOfMv>>

MvNext == SingleColumnCalls \/ TwoColumnCall

SpecMissing == MvInit /\ [][MvNext]_vars

(***************************************************************************)
(* SpecBuckets: data_report's analysis of the existing land-use codes.     *)
(***************************************************************************)
BkInit ==
    /\ bk_pc = "start"
    /\ luc_data \in InvalidCodeTables
    /\ invalid_luc = NoFrames
    /\ luc_analysis = NoAnalysis
    /\ BkAlone

FindInvalidLandUseCodes ==
    /\ bk_pc = "start"
    /\ invalid_luc' = [key \in Categories |-> InvalidRows(luc_data[key], 1)]
    /\ bk_pc' = "found"
    /\ UNCHANGED <<luc_data, luc_analysis, restOfBk>>

AnalyseInvalidLuc ==
    /\ bk_pc = "found"
    /\ luc_analysis' = [key \in Categories |->
                            analyse_invalid_luc(luc_data[key], invalid_luc[key])]
    /\ bk_pc' = "done"
    /\ UNCHANGED <<luc_data, invalid_luc, restOfBk>>

BkNext == FindInvalidLandUseCodes \/ AnalyseInvalidLuc

SpecBuckets == BkInit /\ [][BkNext]_vars

(***************************************************************************)
(* SpecClassify: data_report from the table to the classified buckets.    *)
(***************************************************************************)
ClInit ==
    /\ cl_pc = "start"
    /\ res_data \in ReportTables
    /\ data_filter = <<>>
    /\ classified_data = NoBuckets
    /\ ClAlone

AddFilterColumns ==
    /\ cl_pc = "start"
    /\ data_filter' =
        [i \in 1..Len(res_data) |->
            FilterColumnsOf(res_data[i]) @@ LandUseFilterColumns(res_data, i)]
    /\ cl_pc' = "filtered"
    /\ UNCHANGED <<res_data, classified_data, restOfCl>>

ClassifyData ==
    /\ cl_pc = "filtered"
    /\ classified_data' = classify_data(data_filter, autofix_columns,
                                        user_intervention_required, non_fatal_columns)
    /\ cl_pc' = "classified"
    /\ UNCHANGED <<res_data, data_filter, restOfCl>>

ClNext == AddFilterColumns \/ ClassifyData

SpecClassify == ClInit /\ [][ClNext]_vars

(***************************************************************************)
(* SpecTag: data_report's missing_years column, then infill_missing_tag.   *)
(***************************************************************************)
TagInit ==
    /\ tag_pc = "start"
    /\ tag_in \in TagTables
    /\ tag_data = NoSites
    /\ TagAlone

TagReport ==
    /\ tag_pc = "start"
    /\ tag_in' = data_report(tag_in)
    /\ tag_pc' = "reported"
    /\ UNCHANGED <<tag_data, restOfTag>>

TagInfill ==
    /\ tag_pc = "reported"
    /\ tag_data' = infill_missing_tag(tag_in)
    /\ tag_pc' = "infilled"
    /\ UNCHANGED <<tag_in, restOfTag>>

TagNext == TagReport \/ TagInfill

SpecTag == TagInit /\ [][TagNext]_vars

(***************************************************************************)
(* SpecUser: the user edits the file, infill_user_inputs reads it back.   *)
(***************************************************************************)
UserInit ==
    /\ user_pc = "written"
    /\ user_data \in UserTables
    /\ data_subset = user_data
    /\ infilled_data = NoSites
    /\ UserAlone

UserEdits ==
    /\ user_pc = "written"
    /\ data_subset' \in EditsOf(user_data)
    /\ user_pc' = "edited"
    /\ UNCHANGED <<user_data, infilled_data, restOfUser>>

InfillUserInputs ==
    /\ user_pc = "edited"
    /\ IF UserInputsRaise(user_data, data_subset)
       THEN user_pc' = "raised" /\ UNCHANGED infilled_data
       ELSE /\ infilled_data' = infill_user_inputs(user_data, data_subset)
            /\ user_pc' = "returned"
    /\ UNCHANGED <<user_data, data_subset, restOfUser>>

UserNext == UserEdits \/ InfillUserInputs

SpecUser == UserInit /\ [][UserNext]_vars

(***************************************************************************)
(* SpecFind: one call of find_missing_ids.                                *)
(***************************************************************************)
FmInit ==
    /\ fm_pc = "start"
    /\ ids_l \in IdSeries
    /\ ids_s \in IdSeries
    /\ missing_ids = <<>>
    /\ FmAlone

FindMissingIds ==
    /\ fm_pc = "start"
    /\ IF FindMissingIdsRaises(ids_l, ids_s)
       THEN fm_pc' = "raised" /\ UNCHANGED missing_ids
       ELSE fm_pc' = "returned" /\ missing_ids' = find_missing_ids(ids_l, ids_s)
    /\ UNCHANGED <<ids_l, ids_s, restOfFm>>

FmNext == FindMissingIds

SpecFind == FmInit /\ [][FmNext]_vars

(***************************************************************************)
(* SpecOrder: correct_inavlid_syntax, then infill_data.  The passes that  *)
(* work on the ids, the land-use codes, the certainty and the years leave  *)
(* the area and unit columns as they are.                                  *)
(***************************************************************************)
OrdInit ==
    /\ ord_pc = "fix_site_ref_id"
    /\ gfa_method \in GFAInfillMethod
    /\ ord_data \in OrderTables
    /\ ord_averages = NoAverages
    /\ passes = <<>>
    /\ ord_dtype = 0
    /\ ord_step = 0
    /\ OrdAlone

OrdFixSiteRefId ==
    /\ ord_pc = "fix_site_ref_id"
    /\ passes' = Append(passes, Executed("site_reference", "all"))
    /\ ord_pc' = "incorrect_luc_formatting"
    /\ UNCHANGED <<gfa_method, ord_data, ord_averages, ord_dtype, ord_step, restOfOrd>>

OrdIncorrectLucFormatting ==
    /\ ord_pc = "incorrect_luc_formatting"
    /\ passes' = Append(passes, Executed("luc_format", "all"))
    /\ ord_pc' = "old_incomplete_known_luc"
    /\ UNCHANGED <<gfa_method, ord_data, ord_averages, ord_dtype, ord_step, restOfOrd>>

OrdOldIncompleteKnownLuc ==
    /\ ord_pc = "old_incomplete_known_luc"
    /\ passes' = Append(passes, Executed("luc_lookup", "all"))
    /\ ord_pc' = "fix_missing_lucs"
    /\ UNCHANGED <<gfa_method, ord_data, ord_averages, ord_dtype, ord_step, restOfOrd>>

OrdFixMissingLucs ==
    /\ ord_pc = "fix_missing_lucs"
    /\ passes' = Append(passes, Executed("missing_luc", "all"))
    /\ ord_pc' = "fix_undefined_invalid_luc"
    /\ UNCHANGED <<gfa_method, ord_data, ord_averages, ord_dtype, ord_step, restOfOrd>>

OrdFixUndefinedInvalidLuc ==
    /\ ord_pc = "fix_undefined_invalid_luc"
    /\ passes' = Append(passes, Executed("undefined_luc", "all"))
    /\ ord_pc' = "_average_factors"
    /\ UNCHANGED <<gfa_method, ord_data, ord_averages, ord_dtype, ord_step, restOfOrd>>

\* _average_factors, then the branch on gfa_method
OrdAverageFactors ==
    /\ ord_pc = "_average_factors"
    /\ ord_averages' = _average_factors(ord_data)
    /\ IF gfa_method = "mean"
       THEN ord_pc' = "infill_missing_site_area" /\ UNCHANGED <<ord_dtype, ord_step>>
       ELSE ord_pc' = "_regression_area_infill" /\ ord_dtype' = 1 /\ ord_step' = 1
    /\ UNCHANGED <<gfa_method, ord_data, passes, restOfOrd>>

OrdInfillMissingSiteArea ==
    /\ ord_pc = "infill_missing_site_area"
    /\ ord_data' = infill_missing_site_area(ord_data, ord_averages.average_area)
    /\ passes' = Append(passes, Executed("site_area", "all"))
    /\ ord_pc' = "infill_units"
    /\ UNCHANGED <<gfa_method, ord_averages, ord_dtype, ord_step, restOfOrd>>

\* the two calls of infill_units
OrdInfillUnits ==
    /\ ord_pc = "infill_units"
    /\ ord_data' =
        infill_units(
            infill_units(ord_data, Categories, _UNITS_COLUMNS,
                [key \in Categories |->
                    IF key = "residential" THEN ord_averages.average_dwelling_site_area_ratio
                    ELSE ord_averages.average_gfa_site_area_ratio]),
            {"mixed"},
            [key \in Categories |-> {"dwellings", "units_(dwellings)"}],
            [key \in Categories |-> ord_averages.average_dwelling_site_area_ratio])
    /\ passes' = Append(passes, Executed("units", "all"))
    /\ ord_pc' = "infill_missing_tag"
    /\ UNCHANGED <<gfa_method, ord_averages, ord_dtype, ord_step, restOfOrd>>

\* one step of the loop body is done: the next step, the next table, or out
\* of _regression_area_infill
AfterRegressionStep ==
    IF ord_step < Len(RegressionSteps)
    THEN ord_step' = ord_step + 1 /\ UNCHANGED <<ord_dtype, ord_pc>>
    ELSE IF ord_dtype < Len(CategoryOrder)
    THEN ord_step' = 1 /\ ord_dtype' = ord_dtype + 1 /\ UNCHANGED ord_pc
    ELSE ord_pc' = "infill_missing_tag" /\ UNCHANGED <<ord_dtype, ord_step>>

OrdRegressionUnits ==
    /\ ord_pc = "_regression_area_infill"
    /\ RegressionSteps[ord_step] = "units"
    /\ LET key == CategoryOrder[ord_dtype]
       IN  /\ passes' = Append(passes, Executed("units", key))
           /\ IF RegressionRaises(ord_data[key], _UNITS_COLUMNS[key])
              THEN ord_pc' = "raised" /\ UNCHANGED <<ord_data, ord_dtype, ord_step>>
              ELSE /\ \E prediction \in Predictions :
                        ord_data' = [ord_data EXCEPT ![key] =
                            RegressionUnits(ord_data[key], _UNITS_COLUMNS[key], prediction)]
                   /\ AfterRegressionStep
    /\ UNCHANGED <<gfa_method, ord_averages, restOfOrd>>

OrdRegressionArea ==
    /\ ord_pc = "_regression_area_infill"
    /\ RegressionSteps[ord_step] = "site_area"
    /\ LET key == CategoryOrder[ord_dtype]
       IN  /\ passes' = Append(passes, Executed("site_area", key))
           /\ IF RegressionRaises(ord_data[key], {"area"})
              THEN ord_pc' = "raised" /\ UNCHANGED <<ord_data, ord_dtype, ord_step>>
              ELSE /\ \E prediction \in Predictions :
                        ord_data' = [ord_data EXCEPT ![key] =
                            RegressionArea(ord_data[key], prediction)]
                   /\ AfterRegressionStep
    /\ UNCHANGED <<gfa_method, ord_averages, restOfOrd>>

OrdInfillMissingTag ==
    /\ ord_pc = "infill_missing_tag"
    /\ passes' = Append(passes, Executed("webtag", "all"))
    /\ ord_pc' = "infill_missing_years"
    /\ UNCHANGED <<gfa_method, ord_data, ord_averages, ord_dtype, ord_step, restOfOrd>>

OrdInfillMissingYears ==
    /\ ord_pc = "infill_missing_years"
    /\ passes' = Append(passes, Executed("years", "all"))
    /\ ord_pc' = "done"
    /\ UNCHANGED <<gfa_method, ord_data, ord_averages, ord_dtype, ord_step, restOfOrd>>

OrdNext ==
    \/ OrdFixSiteRefId \/ OrdIncorrectLucFormatting \/ OrdOldIncompleteKnownLuc
    \/ OrdFixMissingLucs \/ OrdFixUndefinedInvalidLuc \/ OrdAverageFactors
    \/ OrdInfillMissingSiteArea \/ OrdInfillUnits
    \/ OrdRegressionUnits \/ OrdRegressionArea
    \/ OrdInfillMissingTag \/ OrdInfillMissingYears

SpecOrder == OrdInit /\ [][OrdNext]_vars

(***************************************************************************)
(* SpecFixes: the loop of analyse_and_infill.run from `data_to_fix =      *)
(* syntax_fixed_data` on.  An action runs from one prompt to the next.     *)
(* data_report adds its filter columns and leaves the columns followed     *)
(* here as they are.                                                       *)
(***************************************************************************)
FixInit ==
    /\ fix_pc = "implement_user_fixes"
    /\ syntax_fixed_data \in FixTables
    /\ data_to_fix = syntax_fixed_data
    /\ user_fixed_data = NoSites
    /\ user_input_file \in
        {NoFile} \cup {user_input_file_builder(c) : c \in EditsOf(syntax_fixed_data)}
    /\ prompts = <<>>
    /\ audits = <<>>
    /\ fix_round = 1
    /\ FixAlone

\* os.path.exists(config.user_input_path), and the first prompt if it does
FileReadyPrompt ==
    /\ fix_pc = "implement_user_fixes"
    /\ IF user_input_file.exists
       THEN \E modification_file_ready \in BOOLEAN :
                /\ prompts' = Append(prompts, Asked(fix_round, "file_ready", modification_file_ready))
                /\ fix_pc' = IF modification_file_ready THEN "user_changes" ELSE "manual_fix_prompt"
       ELSE fix_pc' = "manual_fix_prompt" /\ UNCHANGED prompts
    /\ UNCHANGED <<syntax_fixed_data, data_to_fix, user_fixed_data, user_input_file, audits,
                   fix_round, restOfFix>>

\* the report, 'Do you wish to manually fix data before it is infilled?'
ManualFixPrompt ==
    /\ fix_pc = "manual_fix_prompt"
    /\ \E user_changes \in BOOLEAN :
        IF ~user_changes
        THEN /\ prompts' = Append(prompts, Asked(fix_round, "manual_fix", FALSE))
             /\ user_fixed_data' = data_to_fix
             /\ fix_pc' = "continue_prompt"
             /\ UNCHANGED user_input_file
        ELSE IF user_input_file.exists
        THEN /\ prompts' = Append(prompts, Asked(fix_round, "manual_fix", TRUE))
             /\ fix_pc' = "overwrite_prompt"
             /\ UNCHANGED <<user_fixed_data, user_input_file>>
        ELSE /\ prompts' = Append(Append(prompts, Asked(fix_round, "manual_fix", TRUE)),
                                  Asked(fix_round, "write", TRUE))
             /\ user_input_file' = user_input_file_builder(data_to_fix)
             /\ fix_pc' = "end_program_prompt"
             /\ UNCHANGED user_fixed_data
    /\ UNCHANGED <<syntax_fixed_data, data_to_fix, audits, fix_round, restOfFix>>

\* a build that writes the file without the pause
OverwriteWithoutPrompt ==
    /\ fix_pc = "overwrite_prompt"
    /\ prompts' = Append(prompts, Asked(fix_round, "write", TRUE))
    /\ user_input_file' = user_input_file_builder(data_to_fix)
    /\ fix_pc' = "end_program_prompt"
    /\ UNCHANGED <<syntax_fixed_data, data_to_fix, user_fixed_data, audits, fix_round, restOfFix>>

\* input('Overwriting ..., press enter'), then user_input_file_builder
OverwritePrompt ==
    /\ fix_pc = "overwrite_prompt"
    /\ prompts' = Append(Append(prompts, Asked(fix_round, "overwrite", TRUE)),
                         Asked(fix_round, "write", TRUE))
    /\ user_input_file' = user_input_file_builder(data_to_fix)
    /\ fix_pc' = "end_program_prompt"
    /\ UNCHANGED <<syntax_fixed_data, data_to_fix, user_fixed_data, audits, fix_round, restOfFix>>

\* the operator edits the file the program has written
OperatorEdits ==
    /\ fix_pc = "end_program_prompt"
    /\ \E c \in EditsOf(data_to_fix) : user_input_file' = [exists |-> TRUE, content |-> c]
    /\ UNCHANGED <<fix_pc, syntax_fixed_data, data_to_fix, user_fixed_data, prompts, audits,
                   fix_round, restOfFix>>

\* 'Would you like to end the program and rerun when you have finished?'
EndProgramPrompt ==
    /\ fix_pc = "end_program_prompt"
    /\ \E end_program \in BOOLEAN :
        /\ prompts' = Append(prompts, Asked(fix_round, "end_program", end_program))
        /\ fix_pc' = IF end_program THEN "ended" ELSE "user_changes"
    /\ UNCHANGED <<syntax_fixed_data, data_to_fix, user_fixed_data, user_input_file, audits,
                   fix_round, restOfFix>>

\* `if user_changes:` infill_user_inputs(data, config.user_input_path), then
\* the post-user-fix report
ImplementingUserFixes ==
    /\ fix_pc = "user_changes"
    /\ prompts' = Append(prompts, Asked(fix_round, "read", TRUE))
    /\ user_fixed_data' = infill_user_inputs(data_to_fix, user_input_file.content)
    /\ fix_pc' = "continue_prompt"
    /\ UNCHANGED <<syntax_fixed_data, data_to_fix, user_input_file, audits, fix_round, restOfFix>>

\* 'Would you like to continue (or add further changes)?'
ContinuePrompt ==
    /\ fix_pc = "continue_prompt"
    /\ \E continue_analysis \in BOOLEAN :
        /\ prompts' = Append(prompts, Asked(fix_round, "continue", continue_analysis))
        /\ IF continue_analysis
           THEN /\ audits' = create_user_changes_audit(audits, user_fixed_data, syntax_fixed_data)
                /\ fix_pc' = "infill_data"
                /\ UNCHANGED <<data_to_fix, fix_round>>
           ELSE /\ fix_round < MaxRounds
                /\ data_to_fix' = user_fixed_data
                /\ fix_round' = fix_round + 1
                /\ fix_pc' = "implement_user_fixes"
                /\ UNCHANGED audits
    /\ UNCHANGED <<syntax_fixed_data, user_fixed_data, user_input_file, restOfFix>>

FixNext ==
    \/ FileReadyPrompt \/ ManualFixPrompt \/ OverwritePrompt \/ OperatorEdits
    \/ EndProgramPrompt \/ ImplementingUserFixes \/ ContinuePrompt

SpecFixes == FixInit /\ [][FixNext]_vars

(***************************************************************************)
(* SpecConfig: DLitConfig is built from a configuration whose other       *)
(* fields are valid; the validators run in the order of the fields, the    *)
(* root validator last, and a ValidationError is raised if any of them     *)
(* raised.                                                                 *)
(***************************************************************************)
CfgInit ==
    /\ cfg_pc = "infill"
    /\ config_values \in Configs
    /\ cfg_errors = {}
    /\ CfgAlone

CheckRunningInfill ==
    /\ cfg_pc = "infill"
    /\ cfg_errors' = cfg_errors \cup check_running_infill(config_values)
    /\ cfg_pc' = "land_use"
    /\ UNCHANGED <<config_values, restOfCfg>>

LandUseInputCheck ==
    /\ cfg_pc = "land_use"
    /\ cfg_errors' = cfg_errors \cup land_use_input_check(config_values)
    /\ cfg_pc' = "root"
    /\ UNCHANGED <<config_values, restOfCfg>>

CheckRunning ==
    /\ cfg_pc = "root"
    /\ cfg_errors' = cfg_errors \cup check_running(config_values)
    /\ cfg_pc' = IF cfg_errors' = {} THEN "accepted" ELSE "rejected"
    /\ UNCHANGED <<config_values, restOfCfg>>

CfgNext == CheckRunningInfill \/ LandUseInputCheck \/ CheckRunning

SpecConfig == CfgInit /\ [][CfgNext]_vars

(***************************************************************************)
(* Properties of the resolver (SpecLuc).                                   *)
(***************************************************************************)
FindColumn(table) == FindColumnOf(table)

\* every replacement value of the table is a str or a list of str
WellTyped(table) == \A i \in 1..Len(table) : table[i].replace.kind \in {"str", "list"}

Unmatched(codes, table) == SelectSeq(codes, LAMBDA c : c \notin FindColumn(table))

\* s occurs in t as a subsequence
RECURSIVE IsSubsequence(_, _)
IsSubsequence(s, t) ==
    IF Len(s) = 0 THEN TRUE
    ELSE IF Len(t) = 0 THEN FALSE
    ELSE IF Head(s) = Head(t) THEN IsSubsequence(Tail(s), Tail(t))
    ELSE IsSubsequence(s, Tail(t))

\* how often code c is owed to the result: once per kept token equal to c, and once
\* per occurrence of c in the mapped value of each matched occurrence
Owed(codes, table, c) ==
    Count(Unmatched(codes, table), c)
        + Cardinality(UNION {
              {<<i, j>> : j \in {k \in DOMAIN FirstReplacement(table, codes[i]).codes :
                                   FirstReplacement(table, codes[i]).codes[k] = c}} :
              i \in {k \in 1..Len(codes) : codes[k] \in FindColumn(table)}})

ReplacedPerOccurrence(codes, table, ret) ==
    /\ ret.kind = "list"
    /\ \A c \in Codes : Count(ret.codes, c) = Owed(codes, table, c)
    /\ IsSubsequence(Unmatched(codes, table), ret.codes)

\* no replacement code of a row is the find token of a later row
NoLaterFind(table) ==
    \A i, j \in 1..Len(table) : i < j => table[j].find \notin Range(table[i].replace.codes)

\* no replacement code is in the find column
NoReplacementIsFind(table) ==
    \A i \in 1..Len(table) : Range(table[i].replace.codes) \cap FindColumn(table) = {}

\* C8 as stated: for any code list and any lookup table, each occurrence of a find
\* token is replaced by that token's mapped value(s), once per occurrence, and the
\* other tokens are kept in their original relative order.
C8_AnyTable ==
    (luc_pc = "once" /\ luc_entry.kind = "list" /\ WellTyped(lookup_table))
        => ReplacedPerOccurrence(luc_entry.codes, lookup_table, luc_first.ret)

\* C8 amended: the same, for lookup tables in which no replacement code is the find
\* token of a later row (a later row would replace the replacement again).
C8_Replaced ==
    (luc_pc = "once" /\ luc_entry.kind = "list" /\ WellTyped(lookup_table)
        /\ NoLaterFind(lookup_table))
        => ReplacedPerOccurrence(luc_entry.codes, lookup_table, luc_first.ret)

\* C8 witness: ["a", "a"] with a -> a two-code list: both occurrences are replaced
C8_Witness ==
    /\ luc_pc = "once"
    /\ luc_entry = ListCell(<<"a", "a">>)
    /\ lookup_table = <<[find |-> "a", replace |-> ListRepl(<<"b", "c">>)]>>
    /\ luc_first.ret = ListCell(<<"b", "c", "b", "c">>)

\* C9 as stated: for every code list and every lookup table, a second pass over the
\* result of the first pass returns that result unchanged.
C9_AnyTable == luc_pc = "twice" => luc_second.ret = luc_first.ret

\* C9 amended: a second pass returns the result of the first unchanged for every
\* lookup table in which no replacement code is itself in the find column.
C9_Idempotent ==
    (luc_pc = "twice" /\ NoReplacementIsFind(lookup_table))
        => luc_second.ret = luc_first.ret

\* C9 witness: the first pass replaced something and the second changed nothing
C9_Witness ==
    /\ luc_pc = "twice"
    /\ NoReplacementIsFind(lookup_table)
    /\ luc_entry.kind = "list"
    /\ luc_first.ret # luc_entry
    /\ Len(luc_first.ret.codes) > Len(luc_entry.codes)
    /\ luc_second.ret = luc_first.ret

\* C10 as stated: a cell value that is neither a list nor a string is returned
\* unchanged.
C10_Unchanged ==
    (luc_pc = "once" /\ luc_entry.kind \in {"null", "num"}) => luc_first.ret = luc_entry

\* C10 amended: for a cell value without a length (a null, a number) the resolver
\* does not raise and returns an empty list; the value passed in is not modified.
C10_EmptyList ==
    (luc_pc = "once" /\ luc_entry.kind \in {"null", "num"})
        => (luc_first.ret = ListCell(<<>>) /\ luc_first.arg = luc_entry)

\* C10 witness: a null cell went through a non-empty lookup
C10_Witness ==
    /\ luc_pc = "once"
    /\ luc_entry = NullCell
    /\ Len(lookup_table) > 0
    /\ luc_first.ret = ListCell(<<>>)


(***************************************************************************)
(* Properties of infill_landuse_codes (SpecLand).                          *)
(***************************************************************************)
LandCells ==
    {<<key, i, column>> \in Categories \X (1..1) \X LandColumns :
        i <= Len(land_data[key]) /\ column \in _LAND_USE_COLUMNS[key]}

\* C4: in old_incomplete_known_luc the known-invalid, incomplete and out-of-date
\* passes are chained, each applied to the output of the previous one, so the
\* returned table holds the corrected code(s) for every known-invalid code.
C4_PassesChained ==
    land_pc = "lookups" =>
        \A c \in LandCells :
            land_data[c[1]][c[2]].lu[c[3]].cur
                = ChainedLookups(land_in[c[1]][c[2]].lu[c[3]]).cur

\* C5: after infill_landuse_codes every code of every existing_land_use cell (all
\* categories) and every proposed_land_use cell (employment, mixed) is in the
\* valid-code table, whichever bucket the classifier had put the row in.
C5_AllCodesValid ==
    land_pc = "done" =>
        \A c \in LandCells :
            Range(land_data[c[1]][c[2]].lu[c[3]].cur.codes) \subseteq Range(allowed_codes)

\* C23: old_incomplete_known_luc and fix_missing_lucs return a new table and
\* do not change their input: every land-use-code list of the table handed in
\* holds after the call exactly the codes, in the same order, it held before.
C23_InputUnchanged ==
    [][(land_pc \in {"classified", "lookups"}) =>
        (\A c \in LandCells :
            (land_data[c[1]][c[2]].lu[c[3]].same) =>
                (land_data'[c[1]][c[2]].lu[c[3]].obj = land_data[c[1]][c[2]].lu[c[3]].cur))]_vars

(***************************************************************************)
(* Properties of fix_site_ref_id (SpecIds).                                *)
(***************************************************************************)
SiteCells == {<<key, i>> \in Categories \X (1..MaxSites) : i <= Len(ids_in[key])}

Synthesized == {c \in SiteCells : ids_in[c[1]][c[2]].missing_site_ref}

PreExisting == SiteCells \ Synthesized

IdBefore(c) == ids_in[c[1]][c[2]].site_reference_id

IdAfter(c) == fixed_ids[c[1]][c[2]].site_reference_id

\* C2: once fix_site_ref_id has run over the three categories, every id it
\* synthesized is a number strictly greater than every pre-existing valid id of
\* any category and differs from every other synthesized id of any category; so
\* if the pre-existing ids are pairwise distinct, no two rows of any category
\* share a site_reference_id, and the pre-existing ids are what they were.
C2_UniqueIds ==
    ids_pc = "done" =>
        /\ \A c \in Synthesized :
            /\ ~IdAfter(c).nan
            /\ \A p \in PreExisting : IdAfter(c).val > IdBefore(p).val
            /\ \A d \in Synthesized : d # c => IdAfter(d).val # IdAfter(c).val
        /\ \A p \in PreExisting : IdAfter(p) = IdBefore(p)
        /\ (\A p, q \in PreExisting : p # q => IdBefore(p).val # IdBefore(q).val)
            => \A c, d \in SiteCells : c # d => IdAfter(c) # IdAfter(d)

\* ids were synthesized in two categories next to pre-existing distinct ids
C2_Witness ==
    /\ ids_pc = "done"
    /\ \E c, d \in Synthesized : c[1] # d[1]
    /\ \E p, q \in PreExisting : p # q
    /\ \A p, q \in PreExisting : p # q => IdBefore(p).val # IdBefore(q).val

(***************************************************************************)
(* Properties of infill_missing_years (SpecYears).                         *)
(***************************************************************************)
ModalPeriod(id_) == average_years[id_][2] - average_years[id_][1]

\* C3: for a row missing exactly one of start/end year whose WebTAG category
\* has modal period p, infill_one_missing_year infers the missing year from p:
\* known start s gives end s + p if that stays below 14 and s otherwise; known
\* end e gives start e - p if e > p and e otherwise.
C3_FromModalPeriod ==
    yr_pc = "one_missing" =>
        \A c \in YearCellsOf(yr_in) :
            LET before == yr_in[c[1]][c[2]]
                after == yr_data[c[1]][c[2]]
                id_ == before.web_tag_certainty_id
            IN  id_ \in DOMAIN average_years =>
                /\ (~IsMissingYear(before.start_year_id) /\ IsMissingYear(before.end_year_id))
                    => after.end_year_id
                        = Num(PeriodEnd(before.start_year_id.val, ModalPeriod(id_)))
                /\ (IsMissingYear(before.start_year_id) /\ ~IsMissingYear(before.end_year_id))
                    => after.start_year_id
                        = Num(PeriodStart(before.end_year_id.val, ModalPeriod(id_)))

C27_YearsSet ==
    yr_pc = "done" =>
        \A c \in YearCellsOf(yr_in) :
            LET before == yr_in[c[1]][c[2]]
                after == yr_data[c[1]][c[2]]
                complete == ~IsMissingYear(before.start_year_id) /\ ~IsMissingYear(before.end_year_id)
            IN  /\ before.web_tag_certainty_id \in NonZeroIds =>
                    (~IsMissingYear(after.start_year_id) /\ ~IsMissingYear(after.end_year_id))
                /\ (~complete /\ before.web_tag_certainty_id \in NonZeroIds) =>
                    after.start_year_id.val <= after.end_year_id.val
                /\ complete =>
                    (/\ after.start_year_id = before.start_year_id
                     /\ after.end_year_id = before.end_year_id)

\* a row with no year was given the modal pair next to a row with one year
\* that was given the other
C27_Witness ==
    /\ yr_pc = "done"
    /\ \E c \in YearCellsOf(yr_in) :
        /\ IsMissingYear(yr_in[c[1]][c[2]].start_year_id)
        /\ IsMissingYear(yr_in[c[1]][c[2]].end_year_id)
        /\ yr_data[c[1]][c[2]].start_year_id = Num(4)
        /\ yr_data[c[1]][c[2]].end_year_id = Num(10)

(***************************************************************************)
(* Properties of the MEAN infill (SpecArea).                               *)
(***************************************************************************)
AreaCellsOf(data) == {<<key, i>> \in Categories \X (1..MaxAreaRows) : i <= Len(data[key])}

\* C26: MEAN unit infill changes only unit cells that were missing (null, 0 or
\* "-") on entry: every unit value present on entry to _average_area_infill is
\* unchanged on exit, also in rows where only one unit column is missing.
C26_PresentUnitsKept ==
    area_pc = "done" =>
        \A c \in AreaCellsOf(area_in) :
            \A u \in _UNITS_COLUMNS[c[1]] :
                ~IsMissingValue(area_in[c[1]][c[2]].units[u])
                    => area_data[c[1]][c[2]].units[u] = area_in[c[1]][c[2]].units[u]

\* C6: under the MEAN method a row that enters with a unit value and its site
\* area both missing still has that unit value missing when
\* _average_area_infill returns.
C6_UnitStaysMissing ==
    area_pc = "done" =>
        \A c \in AreaCellsOf(area_in) : \A u \in _UNITS_COLUMNS[c[1]] :
            (IsMissingValue(area_in[c[1]][c[2]].area)
                /\ IsMissingValue(area_in[c[1]][c[2]].units[u]))
            => IsMissingValue(area_data[c[1]][c[2]].units[u])

(***************************************************************************)
(* Properties of the build-out profile (SpecBuild).                        *)
(***************************************************************************)
\* bounds on 1000 * t^k, k = 0..4, from below and from above
RootLow == <<1000, 1148, 1319, 1515, 1741>>

RootHigh == <<1000, 1149, 1320, 1516, 1742>>

Bounded(v, pos, neg) ==
    LET term(k) == IF v[k] >= 0 THEN v[k] * pos[k + 1] ELSE v[k] * neg[k + 1]
    IN  term(0) + term(1) + term(2) + term(3) + term(4)

\* 1000 times the number a vector stands for lies between these two
Low(v) == Bounded(v, RootLow, RootHigh)

High(v) == Bounded(v, RootHigh, RootLow)

\* |x - total| <= 1e-6 * |total|, not ruled out by the bounds above (exact when
\* x - total is rational)
WithinTolerance(x, total) ==
    LET scaled == VecScale(x.den, total)
        rest == VecSub(x.num, scaled)
    IN  /\ x.den # ZeroVec
        /\ Low(rest) <= High(scaled) \div 1000000
        /\ -High(rest) <= High(scaled) \div 1000000

RECURSIVE SumOfColumns(_)
SumOfColumns(i) ==
    IF i = 0 THEN ZeroUnits
    ELSE FracAdd(SumOfColumns(i - 1), build_years[i])

BuildWindow == strip_year(build_row)

\* the window starts in a queried year and is a whole number of periods long
AlignedWindow ==
    /\ \E i \in DOMAIN unit_year_column : unit_year_column[i] = BuildWindow.start_year
    /\ PeriodYears(BuildWindow.start_year, BuildWindow.end_year) % period = 0

BuiltOut ==
    /\ build_pc = "done"
    /\ build_row.distribution \in 2..5
    /\ BuildWindow.end_year >= BuildWindow.start_year

\* C1 as stated: for each shape and every start_year, every end_year >=
\* start_year and every total_unit, the allocations of the periods inside the
\* window sum to total_unit within 1e-6 relative tolerance, whatever the length
\* of the window.
C1_EveryWindow ==
    BuiltOut => WithinTolerance(SumOfColumns(Len(unit_year_column)), build_row.unit)

\* C1 as it holds: for each shape and every total_unit, when start_year is one
\* of the queried years and the window is a whole number of periods long, the
\* allocations of the queried years inside the window sum to total_unit within
\* 1e-6 relative tolerance, one-period windows included.
C1_AlignedWindow ==
    (BuiltOut /\ AlignedWindow)
        => WithinTolerance(SumOfColumns(Len(unit_year_column)), build_row.unit)

\* a mid profile over three periods has been built out
C1_Witness ==
    /\ BuiltOut
    /\ AlignedWindow
    /\ build_row.distribution = 5
    /\ build_row.unit > 0
    /\ PeriodYears(BuildWindow.start_year, BuildWindow.end_year) = 3 * period

\* the number x stands for is total: the powers of t are independent over the
\* rationals, so the two vectors are the same
ExactlyTotal(x, total) == x.den # ZeroVec /\ x.num = VecMul(x.den, Vec(0, total))

FilledColumns ==
    {i \in DOMAIN unit_year_column :
        build_pc = "done" \/ (build_pc = "columns" /\ i < build_col)}

\* C17: for each build-out shape (flat, early, late, mid) the allocation worked
\* out for a year strictly before start_year or strictly after end_year is 0.
C17_ZeroOutsideWindow ==
    \A i \in FilledColumns :
        (/\ build_row.distribution \in 2..5
         /\ \/ unit_year_column[i] < BuildWindow.start_year
            \/ unit_year_column[i] > BuildWindow.end_year)
        => build_years[i] = ZeroUnits

\* an early profile of one period in the middle of the queried years
C17_Witness ==
    /\ build_pc = "done"
    /\ build_row.distribution = 3
    /\ build_row.unit > 0
    /\ \E i, j, k \in DOMAIN unit_year_column :
        /\ unit_year_column[i] < BuildWindow.start_year
        /\ unit_year_column[k] > BuildWindow.end_year
        /\ within_years(BuildWindow.start_year, BuildWindow.end_year, unit_year_column[j])
        /\ build_years[i] = ZeroUnits
        /\ build_years[k] = ZeroUnits
        /\ build_years[j] # ZeroUnits

(***************************************************************************)
(* Properties of the run (SpecRun).                                        *)
(***************************************************************************)
\* C7: given a valid configuration and valid lookups, no row-level data value
\* makes a repair, infill or build-out pass of a run raise: not a row whose
\* build-out distribution id is still 0 or 1 when the build-out stage starts,
\* and not a WebTAG certainty category without a row that has both years.
C7_NoPassRaises == run_pc # "raised"

(***************************************************************************)
(* Properties of find_missing_values (SpecMissing).                        *)
(***************************************************************************)
\* C11: the rows find_missing_values returns over two columns are exactly the
\* set-union of the rows the two single-column calls return, each row of the
\* union once: no row is lost by de-duplication and none is repeated.
C11_UnionOnce ==
    mv_pc = "done" =>
        /\ Range(missing_both) =
              UNION {Range(missing_single[column]) : column \in DOMAIN missing_single}
        /\ \A j, k \in 1..Len(missing_both) : missing_both[j] = missing_both[k] => j = k

(***************************************************************************)
(* Properties of analyse_invalid_luc (SpecBuckets).                        *)
(***************************************************************************)
\* C12: for each category a row of the invalid-code subset is in the
\* other_issues bucket if and only if it is in none of the out_of_date,
\* wrong_format and incomplete buckets.
C12_OtherIffNone ==
    bk_pc = "done" =>
        \A key \in Categories : \A i \in Range(invalid_luc[key]) :
            i \in Range(luc_analysis[key].other_issues)
                <=> i \notin Range(luc_analysis[key].out_of_date)
                                \cup Range(luc_analysis[key].wrong_format)
                                \cup Range(luc_analysis[key].incomplete)

(***************************************************************************)
(* Properties of data_report and classify_data (SpecClassify).             *)
(***************************************************************************)
\* C13: a row flagged missing_gfa_or_dwellings_no_site_area (unit value
\* missing and site area absent) or missing_years_no_webtag (years missing
\* with no WebTAG certainty given) is in the intervention_required bucket and
\* not in the auto_fixes bucket.
C13_NeedsIntervention ==
    cl_pc = "classified" =>
        \A i \in 1..Len(data_filter) :
            (data_filter[i].missing_gfa_or_dwellings_no_site_area
                \/ data_filter[i].missing_years_no_webtag)
            => /\ i \in classified_data.intervention_required
               /\ i \notin classified_data.auto_fixes

\* C14: after classification a row is in the invalid bucket if and only if
\* at least one of its filter columns is true, and every row is in exactly
\* one of the valid and invalid buckets.
C14_InvalidIffFlagged ==
    cl_pc = "classified" =>
        \A i \in 1..Len(res_data) :
            /\ i \in classified_data.invalid
                  <=> \E name \in DOMAIN data_filter[i] : data_filter[i][name]
            /\ i \in classified_data.invalid <=> i \notin classified_data.valid

C14_Witness ==
    /\ cl_pc = "classified"
    /\ classified_data.invalid # {}
    /\ classified_data.valid # {}
    /\ \E i \in classified_data.invalid :
            \A name \in DOMAIN data_filter[i] :
                data_filter[i][name] <=> name = "missing_coords"

Flagged(i) == \E name \in DOMAIN data_filter[i] : data_filter[i][name]

DecisionTable(row) ==
    LET has_years == ~IsMissingYear(row.start_year_id) /\ ~IsMissingYear(row.end_year_id)
    IN  CASE row.planning_status_id = 2 -> 2
          [] row.planning_status_id = 1 /\ has_years -> 3
          [] row.planning_status_id = 1 /\ ~has_years -> 4
          [] row.planning_status_id = 0 /\ row.construction_status_id \in {2, 3} -> 1
          [] OTHER -> 4

\* the planning statuses the decision table has a line for
TablePlanningStatus == {0, 1, 2}

\* C15: every row with unset WebTAG certainty (id 0) gets the certainty of the
\* decision table: permissioned -> 2; not permissioned with both years known
\* -> 3, with years missing -> 4; planning not specified and in construction
\* or complete -> 1, any other construction status -> 4.
C15_DecisionTable ==
    tag_pc = "infilled" =>
        \A c \in YearCellsOf(tag_in) :
            (/\ tag_in[c[1]][c[2]].web_tag_certainty_id = 0
             /\ tag_in[c[1]][c[2]].planning_status_id \in TablePlanningStatus)
            => tag_data[c[1]][c[2]].web_tag_certainty_id = DecisionTable(tag_in[c[1]][c[2]])

C15_Witness ==
    /\ tag_pc = "infilled"
    /\ \E c \in YearCellsOf(tag_in) :
        /\ tag_in[c[1]][c[2]].web_tag_certainty_id = 0
        /\ tag_in[c[1]][c[2]].planning_status_id = 1
        /\ tag_in[c[1]][c[2]].start_year_id.nan
        /\ tag_data[c[1]][c[2]].web_tag_certainty_id = 4
    /\ \E c \in YearCellsOf(tag_in) :
        /\ tag_in[c[1]][c[2]].web_tag_certainty_id = 0
        /\ tag_in[c[1]][c[2]].planning_status_id = 0
        /\ tag_data[c[1]][c[2]].web_tag_certainty_id = 1


\* C22: the pass is total: after infill_missing_tag no row of any category
\* has web_tag_certainty_id 0, whatever its planning_status_id and
\* construction_status_id are.
C22_NoTagLeftUnset ==
    tag_pc = "infilled" =>
        \A c \in YearCellsOf(tag_data) : tag_data[c[1]][c[2]].web_tag_certainty_id # 0

UneditableModified ==
    \E key \in Categories : \E i \in 1..Len(user_data[key]) :
        \E k \in 1..Len(uneditable_columns) :
            data_subset[key][i][uneditable_columns[k]] # user_data[key][i][uneditable_columns[k]]

\* C19: infill_user_inputs called with uneditable_columns raises ValueError
\* when, for some category, a value in the uneditable columns differs between
\* the data and the user-edited file; when none differs it raises nothing and
\* returns the data updated with the user's edits.
C19_RaisesOnModified ==
    /\ user_pc = "raised" => UneditableModified
    /\ user_pc = "returned" =>
        /\ ~UneditableModified
        /\ infilled_data = infill_user_inputs(user_data, data_subset)

(***************************************************************************)
(* Properties of find_missing_ids (SpecFind).                              *)
(***************************************************************************)
\* C20: find_missing_ids(ids_l, ids_s) raises ValueError exactly when some id
\* of ids_s does not occur in ids_l, whatever ids are repeated in the two
\* series; otherwise it returns the ids of ids_l that do not occur in ids_s.
C20_RaisesIffNotSubset ==
    /\ fm_pc = "raised" => ~(Range(ids_s) \subseteq Range(ids_l))
    /\ fm_pc = "returned" =>
        /\ Range(ids_s) \subseteq Range(ids_l)
        /\ Range(missing_ids) = Range(ids_l) \ Range(ids_s)

(***************************************************************************)
(* Properties of the order of the passes (SpecOrder).                      *)
(***************************************************************************)
FixedOrder ==
    <<"site_reference", "luc_format", "luc_lookup", "missing_luc", "undefined_luc",
      "site_area", "units", "webtag", "years">>

Rank(name) == CHOOSE k \in 1..Len(FixedOrder) : FixedOrder[k] = name

\* the site-area and the unit infill taken as one stage
Stage(name) == IF name = "units" THEN Rank("site_area") ELSE Rank(name)

\* C21 as stated: for every GFA infill method the passes execute in the
\* fixed order site-reference synthesis, LUC format repair, LUC lookup repair,
\* missing-LUC fill, undefined-LUC fallback, site-area infill, unit infill,
\* WebTAG-certainty inference, missing-year inference; site-area infill
\* completes before unit infill starts.
C21_FixedOrder ==
    \A i, j \in 1..Len(passes) : i < j => Rank(passes[i].pass) <= Rank(passes[j].pass)

\* C21 as it holds: for every method the passes execute in that order with
\* the site-area and the unit infill as one stage; under the mean method
\* site-area infill completes before unit infill starts, and under the two
\* regression methods the unit columns of a table are infilled before its
\* site area, table by table.
C21_OrderByMethod ==
    /\ \A i, j \in 1..Len(passes) : i < j => Stage(passes[i].pass) <= Stage(passes[j].pass)
    /\ gfa_method = "mean" =>
        \A i, j \in 1..Len(passes) :
            (passes[i].pass = "site_area" /\ passes[j].pass = "units") => i < j
    /\ gfa_method \in regression_methods =>
        \A i, j \in 1..Len(passes) :
            (/\ passes[i].pass = "units" /\ passes[j].pass = "site_area"
             /\ passes[i].key = passes[j].key) => i < j

\* a regression run in which both infills of a table wrote a prediction
C21_Witness ==
    /\ ord_pc = "done"
    /\ gfa_method \in regression_methods
    /\ \E i, j \in 1..Len(passes) :
        /\ i < j
        /\ passes[i] = Executed("units", "employment")
        /\ passes[j] = Executed("site_area", "employment")
    /\ \E i \in 1..Len(ord_data["employment"]) :
        /\ ord_data["employment"][i].area \in Predictions
        /\ \E u \in _UNITS_COLUMNS["employment"] :
            ord_data["employment"][i].units[u] \in Predictions

(***************************************************************************)
(* Properties of the user-fix loop (SpecFixes).                            *)
(***************************************************************************)
Answered(prompt, answer) ==
    \E k \in 1..Len(prompts) : prompts[k].prompt = prompt /\ prompts[k].answer = answer

\* C24: the infill stage is reached if and only if the operator, without
\* having ended the program, has answered yes to the prompt to continue; each
\* no starts another round from the data of the round just reported; the
\* change audit is written exactly once, on the accepting round, and compares
\* the accepted data with the syntax-fixed data.
C24_UntilAccepted ==
    /\ [](/\ fix_pc = "infill_data" <=>
                (Answered("continue", TRUE) /\ ~Answered("end_program", TRUE))
          /\ audits =
                IF Answered("continue", TRUE)
                THEN <<[modified |-> user_fixed_data, original |-> syntax_fixed_data]>>
                ELSE <<>>
          /\ Answered("continue", TRUE) =>
                prompts[Len(prompts)] = Asked(fix_round, "continue", TRUE))
    /\ [][(fix_pc = "continue_prompt" /\ fix_pc' # "infill_data") =>
            (/\ fix_pc' = "implement_user_fixes"
             /\ fix_round' = fix_round + 1
             /\ data_to_fix' = user_fixed_data)]_vars

\* the operator turned down a round whose edits changed the data and accepted
\* the next
C24_Witness ==
    /\ fix_pc = "infill_data"
    /\ fix_round = 2
    /\ Answered("continue", FALSE)
    /\ data_to_fix # syntax_fixed_data
    /\ user_fixed_data # data_to_fix
    /\ Len(audits) = 1

\* the k-th entry of the log is this prompt of this round with this answer
AskedAt(k, round, prompt, answer) ==
    k \in 1..Len(prompts) /\ prompts[k] = Asked(round, prompt, answer)

\* the file was written or read in this round
FileTouchedIn(round) ==
    \E j \in 1..Len(prompts) :
        prompts[j].round = round /\ prompts[j].prompt \in {"write", "read"}

C25_InfillRequired ==
    cfg_pc \in {"accepted", "rejected"} =>
        /\ (config_values.run_infill /\ IsNone(config_values.infill))
                => cfg_pc = "rejected"
        /\ (/\ ~config_values.run_infill /\ IsNone(config_values.infill)
            /\ config_values.run_land_use /\ config_values.land_use = "given_with_input")
                => cfg_pc = "accepted"

=============================================================================
